---- MODULE Spec2Model ----
(***************************************************************************)
(* Flight visualisation: the CSV ingestion pipeline (parseFlightsCsv,      *)
(* getAirportByCode, buildFlightVisualizations) and the map component      *)
(* (visualizeFlights, startAnimation / stopAnimation) with the play        *)
(* toggle of App.vue.                                                      *)
(*                                                                         *)
(* Strings are TLA+ strings, handled one character at a time with Len,     *)
(* SubSeq and \o, as the TypeScript handles them.                          *)
(***************************************************************************)
EXTENDS Integers, Sequences, FiniteSets, TLC

VARIABLES
    csvContent,          \* parseFlightsCsv: the text handed to the parser
    parseOut,            \* parseFlightsCsv: the ParseResult returned
    buildIn,             \* buildFlightVisualizations: flights, airportsMap, replacements
    buildOut,            \* buildFlightVisualizations: the VisualizationResult returned
    colorIn,             \* getFrequencyColor: <<frequency, maxFrequency>>
    colorOut,            \* getFrequencyColor: <<the color returned>>, <<>> before the call
    flightVisualizations,\* MapView props.flightVisualizations (App filteredVisualizations)
    pathLen,             \* number of points L.geodesic(...).getLatLngs()[0] returns
    isAnimating,         \* App.vue isAnimating
    animationAborted,    \* MapView.vue animationAborted
    planeMarker,         \* MapView.vue planeMarker
    markers,             \* MapView.vue markers / markerData
    flightLines,         \* MapView.vue flightLines
    watchPending,        \* the watch callback on props.flightVisualizations is queued
    loops,               \* the startAnimation() calls made so far, one frame each
    timers,              \* pending sleep(50) timers, in the order they expire
    trace,               \* per startAnimation() call: <<flight, index>> of the segments drawn
    zoom,                \* map.getZoom()
    markerIds,           \* per marker of the registry: the identity of the L.Marker object
    markerSizes,         \* per marker of the registry: the size of its icon
    lineWeights,         \* per line of the registry: its weight
    routeZoom,           \* per startAnimation() call: currentZoom of its animateFlightRoute
    currentOpenMarker,   \* MapView.vue currentOpenMarker: <<>> is null, <<id>> a marker
    openPopup,           \* Leaflet: the layer whose popup is on the map, <<>> if none
    popupOpenClass,      \* the markers whose content element has the class popup-open
    hovered,             \* the marker under the pointer (:hover), <<>> if none
    isProcessing,        \* App.vue isProcessing
    parseResult,         \* App.vue parseResult
    appFlights,          \* App.vue flights
    allVisualizations,   \* App.vue flightVisualizations (the unfiltered ones)
    distinctAirportsCount, \* App.vue distinctAirportsCount
    appAirportsMap,      \* App.vue airportsMap
    codeReplacements,    \* App.vue codeReplacements
    isLoadingAirports,   \* App.vue isLoadingAirports
    uploading,           \* the file whose file.text() handleFileUpload awaits, <<>> if none
    unhandledRejection,  \* a handleFileUpload promise was rejected
    airportsCsv,         \* parseAirportsCsv: the text handed in
    airportsOut,         \* parseAirportsCsv: <<the table returned>>, <<>> before the call
    timestampIn,         \* parseTimestamp: the string handed in
    timestampOut,        \* parseTimestamp: <<the value returned>>, <<>> before the call
    lookupIn,            \* getAirportByCode: code, airportsMap, replacements
    lookupOut,           \* getAirportByCode: <<the value returned>>, <<>> before the call
    selectedYear         \* YearFilter.vue selectedYear: <<>> is '' (All years), <<y>> a year

vars == <<csvContent, parseOut, buildIn, buildOut, colorIn, colorOut,
          flightVisualizations, pathLen, isAnimating, animationAborted,
          planeMarker, markers, flightLines, watchPending, loops, timers, trace,
          zoom, markerIds, markerSizes, lineWeights, routeZoom,
          currentOpenMarker, openPopup, popupOpenClass, hovered,
          isProcessing, parseResult, appFlights, allVisualizations, distinctAirportsCount,
          appAirportsMap, codeReplacements, isLoadingAirports, uploading,
          unhandledRejection, airportsCsv, airportsOut, timestampIn, timestampOut,
          lookupIn, lookupOut, selectedYear>>

(***************************************************************************)
(* JavaScript values                                                       *)
(***************************************************************************)
\* null, where the code returns a Date or null
Null == [null |-> TRUE]

\* a value that may be undefined: <<>> is undefined, <<v>> is the value v
Undefined == <<>>
Defined(v) == <<v>>

\* a Date whose getTime() is t (t counts seconds, see DateParse)
DateOf(t) == [time |-> t]

\* an Invalid Date: isNaN(date.getTime())
InvalidDate == [nan |-> TRUE]

(***************************************************************************)
(* String primitives                                                       *)
(***************************************************************************)
CharAt(s, i) == SubSeq(s, i, i)

\* the characters String.prototype.trim removes
Whitespace == {" ", "\t", "\r", "\n"}

RECURSIVE TrimStart(_)
TrimStart(s) ==
    IF Len(s) > 0 /\ CharAt(s, 1) \in Whitespace
    THEN TrimStart(SubSeq(s, 2, Len(s)))
    ELSE s

RECURSIVE TrimEnd(_)
TrimEnd(s) ==
    IF Len(s) > 0 /\ CharAt(s, Len(s)) \in Whitespace
    THEN TrimEnd(SubSeq(s, 1, Len(s) - 1))
    ELSE s

Trim(s) == TrimEnd(TrimStart(s))

UpperChars == "ABCDEFGHIJKLMNOPQRSTUVWXYZ"
LowerChars == "abcdefghijklmnopqrstuvwxyz"

LowerOf ==
    [c \in {CharAt(UpperChars, i) : i \in 1..Len(UpperChars)} |->
        CharAt(LowerChars, CHOOSE i \in 1..Len(UpperChars) : CharAt(UpperChars, i) = c)]

LowerChar(c) == IF c \in DOMAIN LowerOf THEN LowerOf[c] ELSE c

RECURSIVE ToLowerCase(_)
ToLowerCase(s) ==
    IF Len(s) = 0 THEN s
    ELSE LowerChar(CharAt(s, 1)) \o ToLowerCase(SubSeq(s, 2, Len(s)))

Includes(s, c) == \E i \in 1..Len(s) : CharAt(s, i) = c

\* s.split(sep) for a one-character separator: the pieces between the
\* occurrences of sep, of which there is one more than occurrences
Split(s, sep) ==
    LET at == {i \in 1..Len(s) : CharAt(s, i) = sep}
        \* position of the k-th separator; 0 before the first, Len(s)+1 after the last
        pos(k) == IF k = 0 THEN 0
                  ELSE IF k > Cardinality(at) THEN Len(s) + 1
                  ELSE CHOOSE p \in at : Cardinality({q \in at : q < p}) = k - 1
    IN  [k \in 1..(Cardinality(at) + 1) |->
            IF pos(k - 1) + 1 > pos(k) - 1 THEN ""
            ELSE SubSeq(s, pos(k - 1) + 1, pos(k) - 1)]

\* array.join(', ')
RECURSIVE Join(_, _)
Join(parts, sep) ==
    IF Len(parts) = 0 THEN ""
    ELSE IF Len(parts) = 1 THEN parts[1]
    ELSE parts[1] \o sep \o Join(Tail(parts), sep)

\* s.substring(0, n)
Substring0(s, n) == IF Len(s) <= n THEN s ELSE SubSeq(s, 1, n)

\* array.filter(keep) and array.includes(x)
FilterSeq(s, keep(_)) ==
    LET kept[i \in 0..Len(s)] ==
            IF i = 0 THEN <<>>
            ELSE IF keep(s[i]) THEN Append(kept[i - 1], s[i]) ELSE kept[i - 1]
    IN  kept[Len(s)]

SeqIncludes(s, x) == \E i \in 1..Len(s) : s[i] = x

MapSeq(s, f(_)) == [i \in 1..Len(s) |-> f(s[i])]

(***************************************************************************)
(* The Date constructor, on the layouts the parser hands to it.            *)
(* getTime() is modelled in seconds on a 372-day year counted from 2000,   *)
(* which orders instants exactly as the calendar does.                     *)
(***************************************************************************)
Digits == "0123456789"

DigitValue ==
    [c \in {CharAt(Digits, i) : i \in 1..Len(Digits)} |->
        (CHOOSE i \in 1..Len(Digits) : CharAt(Digits, i) = c) - 1]

IsDigit(c) == c \in DOMAIN DigitValue

DigitVal(c) == DigitValue[c]

AllDigits(s) == \A i \in 1..Len(s) : IsDigit(CharAt(s, i))

RECURSIVE NumOf(_)
NumOf(s) ==
    IF Len(s) = 0 THEN 0
    ELSE 10 * NumOf(SubSeq(s, 1, Len(s) - 1)) + DigitVal(CharAt(s, Len(s)))

\* new Date(s): "YYYY-MM-DD HH:mm:ss" (also with a T) is a date, anything
\* else the parser meets here is an Invalid Date
DateParse(s) ==
    IF /\ Len(s) = 19
       /\ CharAt(s, 5) = "-" /\ CharAt(s, 8) = "-"
       /\ CharAt(s, 11) \in {" ", "T"}
       /\ CharAt(s, 14) = ":" /\ CharAt(s, 17) = ":"
       /\ AllDigits(SubSeq(s, 1, 4)) /\ AllDigits(SubSeq(s, 6, 7))
       /\ AllDigits(SubSeq(s, 9, 10)) /\ AllDigits(SubSeq(s, 12, 13))
       /\ AllDigits(SubSeq(s, 15, 16)) /\ AllDigits(SubSeq(s, 18, 19))
    THEN LET year  == NumOf(SubSeq(s, 1, 4))
             month == NumOf(SubSeq(s, 6, 7))
             day   == NumOf(SubSeq(s, 9, 10))
             hh    == NumOf(SubSeq(s, 12, 13))
             mm    == NumOf(SubSeq(s, 15, 16))
             ss    == NumOf(SubSeq(s, 18, 19))
         IN  IF /\ month \in 1..12 /\ day \in 1..31
                /\ hh \in 0..23 /\ mm \in 0..59 /\ ss \in 0..59
             THEN DateOf((((year - 2000) * 372 + (month - 1) * 31 + (day - 1)) * 86400)
                         + hh * 3600 + mm * 60 + ss)
             ELSE InvalidDate
    ELSE InvalidDate

IsNaNDate(d) == d = InvalidDate

(***************************************************************************)
(* flightDataParser.ts                                                     *)
(***************************************************************************)
REQUIRED_COLUMNS ==
    << "airline", "flight_code", "departure_airport", "arrival_airport",
       "departure_timestamp_local", "arrival_timestamp_local" >>

\* variant: the rewritten string has the day and the month in each other's place
parseTimestampMonthFirst(timestamp) ==
    IF timestamp = "" \/ Trim(timestamp) = "" THEN Null
    ELSE
      LET trimmed == Trim(timestamp)
          parts == Split(trimmed, " ")
          dateComponents == Split(parts[1], ".")
          isoFormat == dateComponents[3] \o "-" \o dateComponents[1] \o "-"
                       \o dateComponents[2] \o " " \o parts[2]
          dotted ==
              IF /\ Includes(trimmed, ".")
                 /\ Len(Split(trimmed, ".")) = 3
                 /\ Len(parts) = 2
                 /\ Len(dateComponents) = 3
              THEN DateParse(isoFormat)
              ELSE InvalidDate
          date == DateParse(trimmed)
      IN  IF ~IsNaNDate(dotted) THEN dotted
          ELSE IF ~IsNaNDate(date) THEN date
          ELSE Null

parseTimestamp(timestamp) ==
    IF timestamp = "" \/ Trim(timestamp) = "" THEN Null
    ELSE
      LET trimmed == Trim(timestamp)
          parts == Split(trimmed, " ")
          dateComponents == Split(parts[1], ".")
          isoFormat == dateComponents[3] \o "-" \o dateComponents[2] \o "-"
                       \o dateComponents[1] \o " " \o parts[2]
          dotted ==
              IF /\ Includes(trimmed, ".")
                 /\ Len(Split(trimmed, ".")) = 3
                 /\ Len(parts) = 2
                 /\ Len(dateComponents) = 3
              THEN DateParse(isoFormat)
              ELSE InvalidDate
          date == DateParse(trimmed)
      IN  IF ~IsNaNDate(dotted) THEN dotted
          ELSE IF ~IsNaNDate(date) THEN date
          ELSE Null

\* parseCsvLine. The loop keeps inQuotes, toggled by every double quote, so
\* inQuotes at character i is "an odd number of quotes before i"; a comma met
\* while ~inQuotes ends the field; every other character except the quote is
\* appended to current; each field is pushed trimmed, the last one at the end.
parseCsvLine(line) ==
    LET quotes == {i \in 1..Len(line) : CharAt(line, i) = "\""}
        inQuotes(i) == Cardinality({q \in quotes : q < i}) % 2 = 1
        commas == {i \in 1..Len(line) : CharAt(line, i) = "," /\ ~inQuotes(i)}
        \* position of the k-th field-ending comma; 0 and Len(line)+1 at the ends
        pos(k) == IF k = 0 THEN 0
                  ELSE IF k > Cardinality(commas) THEN Len(line) + 1
                  ELSE CHOOSE p \in commas : Cardinality({q \in commas : q < p}) = k - 1
        raw(k) == IF pos(k - 1) + 1 > pos(k) - 1 THEN ""
                  ELSE SubSeq(line, pos(k - 1) + 1, pos(k) - 1)
        \* the characters of raw(k) that reach current: all but the quotes
        current(k) == Join(Split(raw(k), "\""), "")
    IN  [k \in 1..(Cardinality(commas) + 1) |-> Trim(current(k))]

NonBlank(line) == Trim(line) # ""

\* headers.forEach((header, index) => columnIndex[header] = index): the last
\* column of that name wins (indices here count from 1)
ColumnIndex(headers, name) ==
    CHOOSE i \in 1..Len(headers) :
        /\ headers[i] = name
        /\ \A j \in (i + 1)..Len(headers) : headers[j] # name

\* values[columnIndex[name]]?.trim()
FieldOf(values, headers, name) ==
    IF ColumnIndex(headers, name) <= Len(values)
    THEN Defined(Trim(values[ColumnIndex(headers, name)]))
    ELSE Undefined

\* !value, for a string or undefined
Falsy(v) == v = Undefined \/ v[1] = ""

Flight(data) ==
    [ airline                 |-> data.airline,
      flightCode              |-> data.flightCode,
      departureAirport        |-> data.departureAirport,
      arrivalAirport          |-> data.arrivalAirport,
      departureTimestampLocal |-> data.departureTimestampLocal,
      arrivalTimestampLocal   |-> data.arrivalTimestampLocal ]

\* the fields of lines[i] the row loop reads, each a string or undefined
RowFields(lines, headers, i) ==
    LET values == parseCsvLine(lines[i])
    IN  [ airline                    |-> FieldOf(values, headers, "airline"),
          flightCode                 |-> FieldOf(values, headers, "flight_code"),
          departureAirport           |-> FieldOf(values, headers, "departure_airport"),
          arrivalAirport             |-> FieldOf(values, headers, "arrival_airport"),
          departureTimestampLocalStr |-> FieldOf(values, headers, "departure_timestamp_local"),
          arrivalTimestampLocalStr   |-> FieldOf(values, headers, "arrival_timestamp_local") ]

\* missingFields, in the order the code pushes them
MissingFields(f) ==
    (IF Falsy(f.airline) THEN << "airline" >> ELSE <<>>)
    \o (IF Falsy(f.flightCode) THEN << "flight_code" >> ELSE <<>>)
    \o (IF Falsy(f.departureAirport) THEN << "departure_airport" >> ELSE <<>>)
    \o (IF Falsy(f.arrivalAirport) THEN << "arrival_airport" >> ELSE <<>>)
    \o (IF Falsy(f.departureTimestampLocalStr) THEN << "departure_timestamp_local" >> ELSE <<>>)
    \o (IF Falsy(f.arrivalTimestampLocalStr) THEN << "arrival_timestamp_local" >> ELSE <<>>)

\* invalidTimestamps, for a row whose fields are all present
InvalidTimestamps(f) ==
    (IF parseTimestamp(f.departureTimestampLocalStr[1]) = Null
     THEN << "departure_timestamp_local=\""
             \o Substring0(f.departureTimestampLocalStr[1], 30) \o "\"" >>
     ELSE <<>>)
    \o
    (IF parseTimestamp(f.arrivalTimestampLocalStr[1]) = Null
     THEN << "arrival_timestamp_local=\""
             \o Substring0(f.arrivalTimestampLocalStr[1], 30) \o "\"" >>
     ELSE <<>>)

\* variant: a row with an invalid timestamp is reported but not counted
ParseRowUncounted(lines, headers, i, acc) ==
    LET f == RowFields(lines, headers, i)
    IN  IF Len(MissingFields(f)) > 0
        THEN [acc EXCEPT !.errors = Append(@, "Row " \o ToString(i)),
                         !.failedRows = @ + 1]
        ELSE IF Len(InvalidTimestamps(f)) > 0
        THEN [acc EXCEPT !.errors = Append(@, "Row " \o ToString(i))]
        ELSE [acc EXCEPT !.flights = Append(@, f), !.successfulRows = @ + 1]

\* variant: one message per invalid timestamp
ParseRowErrorPerTimestamp(lines, headers, i, acc) ==
    LET f == RowFields(lines, headers, i)
    IN  IF Len(MissingFields(f)) > 0
        THEN [acc EXCEPT !.errors = Append(@, "Row " \o ToString(i) \o ":"),
                         !.failedRows = @ + 1]
        ELSE IF Len(InvalidTimestamps(f)) > 0
        THEN [acc EXCEPT !.errors = @ \o [k \in 1..Len(InvalidTimestamps(f)) |->
                                            "Row " \o ToString(i) \o ":"],
                         !.failedRows = @ + 1]
        ELSE [acc EXCEPT !.flights = Append(@, f), !.successfulRows = @ + 1]

\* the try block of the row loop once the fields f of row i are read: acc
\* holds flights, errors and the two counters. Nothing in the block can
\* throw on strings, so the catch is never taken.
RowResult(f, i, acc) ==
    LET missingFields == MissingFields(f)
        departureTimestampLocal == parseTimestamp(f.departureTimestampLocalStr[1])
        arrivalTimestampLocal == parseTimestamp(f.arrivalTimestampLocalStr[1])
    IN  IF Len(missingFields) > 0
        THEN [acc EXCEPT
                !.errors = Append(@, "Row " \o ToString(i) \o ": Missing values for "
                                     \o Join(missingFields, ", ")
                                     \o " (empty or not provided)"),
                !.failedRows = @ + 1]
        ELSE IF departureTimestampLocal = Null \/ arrivalTimestampLocal = Null
        THEN [acc EXCEPT
                !.errors = Append(@, "Row " \o ToString(i) \o ": Invalid timestamp format: "
                                     \o Join(InvalidTimestamps(f), ", ")),
                !.failedRows = @ + 1]
        ELSE [acc EXCEPT
                !.flights = Append(@, Flight(
                    [ airline                 |-> f.airline[1],
                      flightCode              |-> f.flightCode[1],
                      departureAirport        |-> f.departureAirport[1],
                      arrivalAirport          |-> f.arrivalAirport[1],
                      departureTimestampLocal |-> departureTimestampLocal,
                      arrivalTimestampLocal   |-> arrivalTimestampLocal ])),
                !.successfulRows = @ + 1]

\* one iteration of the row loop: lines[i] is the row, numbered i in messages
\* (the header is lines[1])
ParseRow(lines, headers, i, acc) == RowResult(RowFields(lines, headers, i), i, acc)

\* for (let i = 1; i < lines.length; i++): rows 2..Len(lines) in order,
\* each starting from what the rows before it left
ParseRows(lines, headers) ==
    LET rowsDone[i \in 1..Len(lines)] ==
            IF i = 1
            THEN [flights |-> <<>>, errors |-> <<>>, successfulRows |-> 0, failedRows |-> 0]
            ELSE ParseRow(lines, headers, i, rowsDone[i - 1])
    IN  rowsDone[Len(lines)]

\* variant: the message names only the first missing column
MissingColumnsResultFirstOnly(lines, missingColumns) ==
    [ flights |-> <<>>,
      errors |-> << "Missing required columns: " \o missingColumns[1] >>,
      totalRows |-> Len(lines) - 1,
      successfulRows |-> 0,
      failedRows |-> Len(lines) - 1 ]

\* the return taken when a required column is missing from the header
MissingColumnsResult(lines, missingColumns) ==
    [ flights |-> <<>>,
      errors |-> << "Missing required columns: " \o Join(missingColumns, ", ") >>,
      totalRows |-> Len(lines) - 1,
      successfulRows |-> 0,
      failedRows |-> Len(lines) - 1 ]

\* headers of the header line: parseCsvLine(headerLine).map(h => h.toLowerCase().trim())
HeadersOf(headerLine) == MapSeq(parseCsvLine(headerLine), LAMBDA h : Trim(ToLowerCase(h)))

\* the return after the row loop, rows being what the loop left
RowsResult(lines, rows) ==
    [ flights |-> rows.flights,
      errors |-> rows.errors,
      totalRows |-> Len(lines) - 1,
      successfulRows |-> rows.successfulRows,
      failedRows |-> rows.failedRows ]

parseFlightsCsv(text) ==
    LET lines == FilterSeq(Split(text, "\n"), NonBlank)
        headers == HeadersOf(lines[1])
        missingColumns == FilterSeq(REQUIRED_COLUMNS, LAMBDA col : ~SeqIncludes(headers, col))
    IN  IF Len(lines) = 0
        THEN [ flights |-> <<>>, errors |-> << "CSV file is empty" >>,
               totalRows |-> 0, successfulRows |-> 0, failedRows |-> 0 ]
        ELSE IF Len(missingColumns) > 0
        THEN MissingColumnsResult(lines, missingColumns)
        ELSE RowsResult(lines, ParseRows(lines, headers))

(***************************************************************************)
(* airportsParser.ts, flightVisualizationBuilder.ts                        *)
(***************************************************************************)
\* an Airport, as far as the pipeline and the map read it
Airport(iataCode) == [iataCode |-> iataCode]

\* Map.prototype.get / has on a table held as a function over its keys
MapHas(table, key) == key \in DOMAIN table
MapGet(table, key) == IF key \in DOMAIN table THEN Defined(table[key]) ELSE Undefined

\* parseFloat: the longest prefix of the text, leading whitespace dropped,
\* that is a decimal literal (sign, digits with an optional point, optional
\* exponent, or Infinity); NaN when no prefix is one.  The number is held as
\* the literal read.
NaN == [nan |-> TRUE]

Unsigned(s) ==
    IF Len(s) > 0 /\ CharAt(s, 1) \in {"+", "-"} THEN SubSeq(s, 2, Len(s)) ELSE s

IsMantissa(m) ==
    /\ Cardinality({i \in 1..Len(m) : CharAt(m, i) = "."}) <= 1
    /\ \A i \in 1..Len(m) : CharAt(m, i) = "." \/ IsDigit(CharAt(m, i))
    /\ \E i \in 1..Len(m) : IsDigit(CharAt(m, i))

IsExponent(x) == Len(Unsigned(x)) > 0 /\ AllDigits(Unsigned(x))

IsUnsignedLiteral(u) ==
    LET marks == {i \in 1..Len(u) : CharAt(u, i) \in {"e", "E"}}
        mark == CHOOSE i \in marks : \A j \in marks : i <= j
    IN  IF marks = {} THEN IsMantissa(u)
        ELSE /\ mark > 1 /\ mark < Len(u)
             /\ IsMantissa(SubSeq(u, 1, mark - 1))
             /\ IsExponent(SubSeq(u, mark + 1, Len(u)))

IsDecimalLiteral(s) == Unsigned(s) = "Infinity" \/ IsUnsignedLiteral(Unsigned(s))

parseFloat(value) ==
    LET text == TrimStart(value)
        literals == {n \in 1..Len(text) : IsDecimalLiteral(SubSeq(text, 1, n))}
    IN  IF literals = {} THEN NaN
        ELSE [literal |-> SubSeq(text, 1, CHOOSE n \in literals : \A k \in literals : k <= n)]

parseNumber(value) ==
    IF value = "" \/ Trim(value) = "" THEN Null
    ELSE IF parseFloat(value) = NaN THEN Null
    ELSE parseFloat(value)

\* values[columnIndex[name]]?.trim() || '': the empty string as well when the
\* header has no such column or the row is too short
AirportField(values, headers, name) ==
    IF ~SeqIncludes(headers, name) THEN ""
    ELSE IF FieldOf(values, headers, name) = Undefined THEN ""
    ELSE FieldOf(values, headers, name)[1]

\* new Airport(airportData), with the fields read from the row: of the string
\* fields, which are all copied alike, iataCode and name are kept
AirportOfRow(values, headers) ==
    [ iataCode |-> AirportField(values, headers, "iata_code"),
      name |-> AirportField(values, headers, "name"),
      coordinates |-> << parseNumber(AirportField(values, headers, "latitude_deg")),
                         parseNumber(AirportField(values, headers, "longitude_deg")) >>,
      elevationFt |-> parseNumber(AirportField(values, headers, "elevation_ft")) ]

\* variant of Map.prototype.set: an entry already present is kept
MapSetIfAbsent(table, key, value) ==
    [k \in DOMAIN table \cup {key} |-> IF k \in DOMAIN table THEN table[k] ELSE value]

\* Map.prototype.set
MapSet(table, key, value) ==
    [k \in DOMAIN table \cup {key} |-> IF k = key THEN value ELSE table[k]]

\* one iteration of the row loop of parseAirportsCsv, on the airport read
\* from the row
AirportRow(airport, table) ==
    IF airport.iataCode = "" THEN table
    ELSE IF airport.coordinates[1] = Null \/ airport.coordinates[2] = Null THEN table
    ELSE MapSet(table, airport.iataCode, airport)

AirportRows(lines, headers) ==
    LET rowsDone[i \in 1..Len(lines)] ==
            IF i = 1 THEN <<>>
            ELSE AirportRow(AirportOfRow(parseCsvLine(lines[i]), headers), rowsDone[i - 1])
    IN  rowsDone[Len(lines)]

AirportLines(lines) ==
    IF Len(lines) = 0 THEN <<>> ELSE AirportRows(lines, HeadersOf(lines[1]))

parseAirportsCsv(text) == AirportLines(FilterSeq(Split(text, "\n"), NonBlank))

\* variant: a replacement entry is followed even when the code itself is a key
getAirportByCodeReplacementFirst(code, airportsMap, replacements) ==
    IF MapHas(replacements, code)
    THEN MapGet(airportsMap, replacements[code])
    ELSE MapGet(airportsMap, code)

\* variant: the replacement table is never consulted
getAirportByCodeDirectOnly(code, airportsMap, replacements) ==
    MapGet(airportsMap, code)

getAirportByCode(code, airportsMap, replacements) ==
    LET airport == MapGet(airportsMap, code)
    IN  IF airport = Undefined /\ MapHas(replacements, code)
        THEN MapGet(airportsMap, replacements[code])
        ELSE airport

createFlightVisualization(flight, fromAirport, toAirport) ==
    [ fromAirport        |-> fromAirport,
      toAirport          |-> toAirport,
      departureTimestamp |-> flight.departureTimestampLocal,
      arrivalTimestamp   |-> flight.arrivalTimestampLocal,
      flightNumber       |-> flight.flightCode,
      airline            |-> flight.airline,
      flight             |-> flight ]

\* variant: the codes are tracked after the lookups, for visualized flights only
BuildFlightTracksVisualized(flight, airportsMap, replacements, acc) ==
    LET flightNumber == flight.airline \o " " \o flight.flightCode
        fromAirport == getAirportByCode(flight.departureAirport, airportsMap, replacements)
        toAirport == getAirportByCode(flight.arrivalAirport, airportsMap, replacements)
    IN  IF fromAirport = Undefined
        THEN [acc EXCEPT
                !.unresolvedAirports = @ \cup {flight.departureAirport},
                !.errors = Append(@, "Flight " \o flightNumber \o ": Departure airport \""
                                     \o flight.departureAirport
                                     \o "\" not found in airports database")]
        ELSE IF toAirport = Undefined
        THEN [acc EXCEPT
                !.unresolvedAirports = @ \cup {flight.arrivalAirport},
                !.errors = Append(@, "Flight " \o flightNumber \o ": Arrival airport \""
                                     \o flight.arrivalAirport
                                     \o "\" not found in airports database")]
        ELSE [acc EXCEPT
                !.distinctAirports = @ \cup {flight.departureAirport, flight.arrivalAirport},
                !.visualizations = Append(@,
                    createFlightVisualization(flight, fromAirport[1], toAirport[1]))]

\* one iteration of the loop of buildFlightVisualizations, on flights[i]
BuildFlight(flight, airportsMap, replacements, acc) ==
    LET flightNumber == flight.airline \o " " \o flight.flightCode
        tracked == [acc EXCEPT !.distinctAirports =
                        @ \cup {flight.departureAirport, flight.arrivalAirport}]
        fromAirport == getAirportByCode(flight.departureAirport, airportsMap, replacements)
        toAirport == getAirportByCode(flight.arrivalAirport, airportsMap, replacements)
    IN  IF fromAirport = Undefined
        THEN [tracked EXCEPT
                !.unresolvedAirports = @ \cup {flight.departureAirport},
                !.errors = Append(@, "Flight " \o flightNumber \o ": Departure airport \""
                                     \o flight.departureAirport
                                     \o "\" not found in airports database")]
        ELSE IF toAirport = Undefined
        THEN [tracked EXCEPT
                !.unresolvedAirports = @ \cup {flight.arrivalAirport},
                !.errors = Append(@, "Flight " \o flightNumber \o ": Arrival airport \""
                                     \o flight.arrivalAirport
                                     \o "\" not found in airports database")]
        ELSE [tracked EXCEPT
                !.visualizations = Append(@,
                    createFlightVisualization(flight, fromAirport[1], toAirport[1]))]

buildFlightVisualizations(flights, airportsMap, replacements) ==
    LET flightsDone[i \in 0..Len(flights)] ==
            IF i = 0
            THEN [ visualizations |-> <<>>, errors |-> <<>>,
                   unresolvedAirports |-> {}, distinctAirports |-> {} ]
            ELSE BuildFlight(flights[i], airportsMap, replacements, flightsDone[i - 1])
        out == flightsDone[Len(flights)]
    IN  [ visualizations     |-> out.visualizations,
          totalFlightsParsed |-> Len(flights),
          distinctAirports   |-> out.distinctAirports,
          errors             |-> out.errors,
          unresolvedAirports |-> out.unresolvedAirports ]

(***************************************************************************)
(* MapView.vue: colors                                                     *)
(***************************************************************************)
DefaultBlue == "#667eea"
Blue   == "#3b82f6"
Cyan   == "#06b6d4"
Green  == "#10b981"
Orange == "#f59e0b"
Red    == "#ef4444"

\* variant: the 15% boundary belongs to the upper band
getFrequencyColorStrict(frequency, maxFrequency) ==
    IF maxFrequency = 0 THEN DefaultBlue
    ELSE IF frequency * 100 < 15 * maxFrequency THEN Blue
    ELSE IF frequency * 100 <= 30 * maxFrequency THEN Cyan
    ELSE IF frequency * 100 <= 50 * maxFrequency THEN Green
    ELSE IF frequency * 100 <= 75 * maxFrequency THEN Orange
    ELSE Red

\* ratio = frequency / maxFrequency compared with 0.15, 0.3, 0.5 and 0.75: the
\* quotient of two counts is on the same side of n/100 as frequency * 100 is
\* of n * maxFrequency
getFrequencyColor(frequency, maxFrequency) ==
    IF maxFrequency = 0 THEN DefaultBlue
    ELSE IF frequency * 100 <= 15 * maxFrequency THEN Blue
    ELSE IF frequency * 100 <= 30 * maxFrequency THEN Cyan
    ELSE IF frequency * 100 <= 50 * maxFrequency THEN Green
    ELSE IF frequency * 100 <= 75 * maxFrequency THEN Orange
    ELSE Red

(***************************************************************************)
(* MapView.vue: segments of a route and their colors                       *)
(***************************************************************************)
HexDigits == "0123456789abcdef"

HexValue ==
    [c \in {CharAt(HexDigits, i) : i \in 1..Len(HexDigits)} |->
        (CHOOSE i \in 1..Len(HexDigits) : CharAt(HexDigits, i) = c) - 1]

IsHexDigit(c) == LowerChar(c) \in DOMAIN HexValue

\* parseInt(s, 16) for the two hex digits the pattern captured
parseInt16(s) ==
    Len(HexDigits) * HexValue[LowerChar(CharAt(s, 1))] + HexValue[LowerChar(CharAt(s, 2))]

\* /^#?([a-f\d]{2})([a-f\d]{2})([a-f\d]{2})$/i, or the fallback color
hexToRgb(hex) ==
    LET digits == IF Len(hex) > 0 /\ CharAt(hex, 1) = "#"
                  THEN SubSeq(hex, 2, Len(hex)) ELSE hex
    IN  IF Len(digits) = 6 /\ \A i \in 1..6 : IsHexDigit(CharAt(digits, i))
        THEN [ r |-> parseInt16(SubSeq(digits, 1, 2)),
               g |-> parseInt16(SubSeq(digits, 3, 4)),
               b |-> parseInt16(SubSeq(digits, 5, 6)) ]
        ELSE [ r |-> 102, g |-> 126, b |-> 234 ]

\* Math.round(c1 + (c2 - c1) * ratio) for ratio = ratio[1] / ratio[2] between
\* 0 and 1: the nearest integer, a half rounding up
RoundMix(c1, c2, ratio) ==
    (2 * (ratio[2] * c1 + (c2 - c1) * ratio[1]) + ratio[2]) \div (2 * ratio[2])

\* ratio is the pair <<i, numSegments - 1>> standing for the quotient i / 9
interpolateColor(color1, color2, ratio) ==
    LET c1 == hexToRgb(color1)
        c2 == hexToRgb(color2)
    IN  "rgb(" \o ToString(RoundMix(c1.r, c2.r, ratio)) \o ", "
               \o ToString(RoundMix(c1.g, c2.g, ratio)) \o ", "
               \o ToString(RoundMix(c1.b, c2.b, ratio)) \o ")"

numSegments == 10

middleSegmentIndex == 4

\* segmentSize = Math.floor(pathPoints.length / numSegments)
segmentSize(n) == n \div numSegments

startIdx(i, n) == i * segmentSize(n)

\* variant: the last segment takes no remainder
endIdxEqualRuns(i, n) == (i + 1) * segmentSize(n)

endIdx(i, n) == IF i = numSegments - 1 THEN n ELSE (i + 1) * segmentSize(n)

\* pathPoints.slice(startIdx, endIdx + 1), the points of a path of n points
\* being numbered 0 .. n - 1
segmentPoints(i, n) ==
    LET stop == IF endIdx(i, n) + 1 < n THEN endIdx(i, n) + 1 ELSE n
    IN  IF stop <= startIdx(i, n) THEN <<>>
        ELSE [k \in 1..(stop - startIdx(i, n)) |-> startIdx(i, n) + k - 1]

\* the loop indices whose segment is drawn (segmentPoints.length >= 2), ascending
DrawnIndices(n) ==
    FilterSeq([k \in 1..numSegments |-> k - 1], LAMBDA i : Len(segmentPoints(i, n)) >= 2)

\* L.polyline(segmentPoints, {color}) of the route of viz, made at loop index i
Polyline(viz, i, n, fromColor, toColor) ==
    [ from   |-> viz.fromAirport.iataCode,
      to     |-> viz.toAirport.iataCode,
      index  |-> i,
      points |-> segmentPoints(i, n),
      color  |-> interpolateColor(fromColor, toColor, <<i, numSegments - 1>>),
      popup  |-> Undefined,
      click  |-> Undefined ]

(***************************************************************************)
(* MapView.vue: airport frequencies and route keys                         *)
(***************************************************************************)
\* variant: a flight counts for its departure airport only
airportFrequencyDepartures(visualizations) ==
    [ code \in {visualizations[k].fromAirport.iataCode : k \in 1..Len(visualizations)}
               \cup {visualizations[k].toAirport.iataCode : k \in 1..Len(visualizations)} |->
        Cardinality({k \in 1..Len(visualizations) :
                        visualizations[k].fromAirport.iataCode = code}) ]

\* airportFrequency: every flight counts for its departure and its arrival airport
airportFrequency(visualizations) ==
    [ code \in {visualizations[k].fromAirport.iataCode : k \in 1..Len(visualizations)}
               \cup {visualizations[k].toAirport.iataCode : k \in 1..Len(visualizations)} |->
        Cardinality({k \in 1..Len(visualizations) :
                        visualizations[k].fromAirport.iataCode = code})
        + Cardinality({k \in 1..Len(visualizations) :
                        visualizations[k].toAirport.iataCode = code}) ]

\* Math.max(...Array.from(airportFrequency.values())), for a non-empty table
maxFrequency(frequency) ==
    CHOOSE m \in {frequency[c] : c \in DOMAIN frequency} :
        \A c \in DOMAIN frequency : frequency[c] <= m

\* the UTF-16 order of the characters of airport codes
CodeUnits == "0123456789ABCDEFGHIJKLMNOPQRSTUVWXYZabcdefghijklmnopqrstuvwxyz"

CodeUnit(c) == CHOOSE i \in 1..Len(CodeUnits) : CharAt(CodeUnits, i) = c

\* a < b as Array.prototype.sort() without a comparator orders strings
RECURSIVE StringLess(_, _)
StringLess(a, b) ==
    IF Len(b) = 0 THEN FALSE
    ELSE IF Len(a) = 0 THEN TRUE
    ELSE IF CharAt(a, 1) = CharAt(b, 1)
    THEN StringLess(SubSeq(a, 2, Len(a)), SubSeq(b, 2, Len(b)))
    ELSE CodeUnit(CharAt(a, 1)) < CodeUnit(CharAt(b, 1))

\* variant: the key keeps the direction of the flight
routeKeyDirected(viz) ==
    Join(<<viz.fromAirport.iataCode, viz.toAirport.iataCode>>, "-")

\* [from, to].sort().join('-')
routeKey(viz) ==
    LET from == viz.fromAirport.iataCode
        to == viz.toAirport.iataCode
    IN  Join(IF StringLess(to, from) THEN <<to, from>> ELSE <<from, to>>, "-")

(***************************************************************************)
(* MapView.vue: visualizeFlights                                           *)
(***************************************************************************)
months == << "Jan", "Feb", "Mar", "Apr", "May", "Jun",
             "Jul", "Aug", "Sep", "Oct", "Nov", "Dec" >>

\* `${day} ${month} ${year}` of a Date, on the calendar of DateParse
formatFlightDate(date) ==
    LET days == date.time \div 86400
    IN  ToString((days % 31) + 1) \o " " \o months[((days \div 31) % 12) + 1]
            \o " " \o ToString(2000 + (days \div 372))

\* one flight-info line of the popup: flight number and date
flightInfo(f) ==
    [ number |-> f.flight.airline \o " " \o f.flight.flightCode,
      date   |-> formatFlightDate(f.departureTimestamp) ]

\* popupContent of the route drawn for viz: the flights under its route key,
\* those in the direction of viz first, then those in the opposite direction
popupContent(viz, visualizations, fromColor, toColor) ==
    LET flightsOnRoute == FilterSeq(visualizations, LAMBDA f : routeKey(f) = routeKey(viz))
        outboundFlights ==
            FilterSeq(flightsOnRoute, LAMBDA f :
                /\ f.fromAirport.iataCode = viz.fromAirport.iataCode
                /\ f.toAirport.iataCode = viz.toAirport.iataCode)
        returnFlights ==
            FilterSeq(flightsOnRoute, LAMBDA f :
                /\ f.fromAirport.iataCode = viz.toAirport.iataCode
                /\ f.toAirport.iataCode = viz.fromAirport.iataCode)
    IN  [ outbound |-> IF Len(outboundFlights) > 0
                       THEN Defined([ from |-> viz.fromAirport.iataCode, fromColor |-> fromColor,
                                      to |-> viz.toAirport.iataCode, toColor |-> toColor,
                                      flights |-> MapSeq(outboundFlights, flightInfo) ])
                       ELSE Undefined,
          return   |-> IF Len(returnFlights) > 0
                       THEN Defined([ from |-> viz.toAirport.iataCode, fromColor |-> toColor,
                                      to |-> viz.fromAirport.iataCode, toColor |-> fromColor,
                                      flights |-> MapSeq(returnFlights, flightInfo) ])
                       ELSE Undefined ]

\* the segments drawn for the route of viz, in the order they are pushed to
\* flightLines; the popup goes to flightSegments[middleSegmentIndex] when
\* there is one, and every segment then opens it on a click
routeSegments(viz, visualizations, n) ==
    LET frequency == airportFrequency(visualizations)
        fromColor == getFrequencyColor(frequency[viz.fromAirport.iataCode], maxFrequency(frequency))
        toColor == getFrequencyColor(frequency[viz.toAirport.iataCode], maxFrequency(frequency))
        drawn == DrawnIndices(n)
        flightSegments == [k \in 1..Len(drawn) |-> Polyline(viz, drawn[k], n, fromColor, toColor)]
        hasMiddle == Len(flightSegments) > middleSegmentIndex
    IN  [k \in 1..Len(flightSegments) |->
            IF ~hasMiddle THEN flightSegments[k]
            ELSE [flightSegments[k] EXCEPT
                    !.popup = IF k = middleSegmentIndex + 1
                              THEN Defined(popupContent(viz, visualizations, fromColor, toColor))
                              ELSE Undefined,
                    !.click = Defined(flightSegments[middleSegmentIndex + 1].index)]]

\* the visualizations.forEach that draws the routes: a flight whose key is
\* already in drawnRoutes draws nothing
staticLines(visualizations, n) ==
    LET linesDone[k \in 0..Len(visualizations)] ==
            IF k = 0 THEN <<>>
            ELSE IF \E j \in 1..(k - 1) : routeKey(visualizations[j]) = routeKey(visualizations[k])
            THEN linesDone[k - 1]
            ELSE linesDone[k - 1] \o routeSegments(visualizations[k], visualizations, n)
    IN  linesDone[Len(visualizations)]

\* the keys of airportsMap in insertion order: the departure and arrival codes
\* of the flights in turn, each code once
airportOrder(visualizations) ==
    LET codes == [j \in 1..(2 * Len(visualizations)) |->
                    IF j % 2 = 1 THEN visualizations[(j + 1) \div 2].fromAirport.iataCode
                    ELSE visualizations[j \div 2].toAirport.iataCode]
        first == FilterSeq([j \in 1..Len(codes) |-> j],
                           LAMBDA j : \A q \in 1..(j - 1) : codes[q] # codes[j])
    IN  [k \in 1..Len(first) |-> codes[first[k]]]

\* a marker of the static scene, with its popup
staticMarker(code, visualizations) ==
    LET frequency == airportFrequency(visualizations)
    IN  [ airport |-> Airport(code),
          color   |-> getFrequencyColor(frequency[code], maxFrequency(frequency)),
          popup   |-> Defined([frequency |-> frequency[code]]) ]

staticMarkers(visualizations) ==
    MapSeq(airportOrder(visualizations), LAMBDA code : staticMarker(code, visualizations))

\* visualizeFlights(visualizations): both registries are cleared and filled
\* again, lines first; n is the number of points of a geodesic path
visualizeFlights(visualizations, n) ==
    IF Len(visualizations) = 0
    THEN [ markers |-> <<>>, flightLines |-> <<>> ]
    ELSE [ markers |-> staticMarkers(visualizations),
           flightLines |-> staticLines(visualizations, n) ]

(***************************************************************************)
(* MapView.vue: startAnimation, animateFlightRoute, stopAnimation          *)
(***************************************************************************)
\* variant: the comparator subtracts the other way round
sortedFlightsDescending(visualizations) ==
    LET time(k) == visualizations[k].departureTimestamp.time
        rank(k) == Cardinality({j \in 1..Len(visualizations) : time(j) > time(k)})
                   + Cardinality({j \in 1..(k - 1) : time(j) = time(k)}) + 1
    IN  [p \in 1..Len(visualizations) |->
            visualizations[CHOOSE k \in 1..Len(visualizations) : rank(k) = p]]

\* [...props.flightVisualizations].sort((a, b) => a.departureTimestamp.getTime()
\* - b.departureTimestamp.getTime()): Array.prototype.sort is stable, so a
\* flight comes after the flights that depart earlier and after those of the
\* same instant that precede it in the array
sortedFlights(visualizations) ==
    LET time(k) == visualizations[k].departureTimestamp.time
        rank(k) == Cardinality({j \in 1..Len(visualizations) : time(j) < time(k)})
                   + Cardinality({j \in 1..(k - 1) : time(j) = time(k)}) + 1
    IN  [p \in 1..Len(visualizations) |->
            visualizations[CHOOSE k \in 1..Len(visualizations) : rank(k) = p]]

\* addAirportMarker(airport, color, true): a marker without a popup
addAirportMarker(registry, airport, color) ==
    Append(registry, [airport |-> airport, color |-> color, popup |-> Undefined])

\* showPlaneMarker(position): the previous plane marker is replaced
showPlaneMarker(position) == [position |-> position]

\* the local variables of one startAnimation() call
Frame(visualizations) ==
    [ sortedFlights |-> sortedFlights(visualizations),
      airportFrequency |-> airportFrequency(visualizations),
      shownAirports |-> {},
      flight |-> 0,
      segment |-> 0,
      done |-> FALSE ]

\* S holds what a running call reads and writes: the two registries, the
\* plane marker, its frame and the segments it has drawn
fromColorOf(S) ==
    getFrequencyColor(
        S.frame.airportFrequency[S.frame.sortedFlights[S.frame.flight].fromAirport.iataCode],
        maxFrequency(S.frame.airportFrequency))

toColorOf(S) ==
    getFrequencyColor(
        S.frame.airportFrequency[S.frame.sortedFlights[S.frame.flight].toAirport.iataCode],
        maxFrequency(S.frame.airportFrequency))

\* variant: a marker is added whether the airport was shown or not
showAirportAgain(S, airport, color) ==
    [S EXCEPT !.markers = addAirportMarker(@, airport, color),
              !.frame.shownAirports = @ \cup {airport.iataCode}]

\* if (!shownAirports.has(code)) { addAirportMarker(...); shownAirports.add(code) }
\* (highlightAirportMarker otherwise, which only pulses the marker)
showAirport(S, airport, color) ==
    IF airport.iataCode \in S.frame.shownAirports THEN S
    ELSE [S EXCEPT !.markers = addAirportMarker(@, airport, color),
                   !.frame.shownAirports = @ \cup {airport.iataCode}]

RECURSIVE animateFlightRoute(_, _, _, _)
RECURSIVE animateFlights(_, _, _, _)

\* variant: when the loop is over, the flights are drawn again as the static
\* scene draws them
animateFlightsThenStaticScene(S, k, aborted, n) ==
    IF k > Len(S.frame.sortedFlights) \/ aborted
    THEN [S EXCEPT !.frame.done = TRUE,
                   !.markers = visualizeFlights(S.frame.sortedFlights, n).markers,
                   !.flightLines = visualizeFlights(S.frame.sortedFlights, n).flightLines]
    ELSE LET at == [S EXCEPT !.frame.flight = k]
         IN  animateFlightRoute(
                 showAirport(at, at.frame.sortedFlights[k].fromAirport, fromColorOf(at)),
                 0, aborted, n)

\* the for loop of startAnimation from sortedFlights[k] on, run until the
\* call suspends in sleep or returns
animateFlights(S, k, aborted, n) ==
    IF k > Len(S.frame.sortedFlights) \/ aborted
    THEN [S EXCEPT !.frame.done = TRUE]
    ELSE LET at == [S EXCEPT !.frame.flight = k]
         IN  animateFlightRoute(
                 showAirport(at, at.frame.sortedFlights[k].fromAirport, fromColorOf(at)),
                 0, aborted, n)

\* variant: the segment loop does not look at animationAborted
animateFlightRouteUnchecked(S, i, aborted, n) ==
    LET viz == S.frame.sortedFlights[S.frame.flight]
    IN  IF i < numSegments
        THEN IF Len(segmentPoints(i, n)) < 2
             THEN animateFlightRoute(S, i + 1, aborted, n)
             ELSE [S EXCEPT
                     !.flightLines = Append(@, Polyline(viz, i, n, fromColorOf(S), toColorOf(S))),
                     !.planeMarker = showPlaneMarker(
                         [ from |-> viz.fromAirport.iataCode, to |-> viz.toAirport.iataCode,
                           point |-> segmentPoints(i, n)[Len(segmentPoints(i, n))] ]),
                     !.frame.segment = i,
                     !.drawn = Append(@, [flight |-> S.frame.flight, index |-> i])]
        ELSE animateFlights(
                 showAirport([S EXCEPT !.planeMarker = Null], viz.toAirport, toColorOf(S)),
                 S.frame.flight + 1, aborted, n)

\* the for loop of animateFlightRoute from index i on: it suspends in
\* sleep(50) after drawing a segment; when it is left, the plane marker is
\* removed and startAnimation goes on with the arrival airport and the next flight
animateFlightRoute(S, i, aborted, n) ==
    LET viz == S.frame.sortedFlights[S.frame.flight]
    IN  IF i < numSegments /\ ~aborted
        THEN IF Len(segmentPoints(i, n)) < 2
             THEN animateFlightRoute(S, i + 1, aborted, n)
             ELSE [S EXCEPT
                     !.flightLines = Append(@, Polyline(viz, i, n, fromColorOf(S), toColorOf(S))),
                     !.planeMarker = showPlaneMarker(
                         [ from |-> viz.fromAirport.iataCode, to |-> viz.toAirport.iataCode,
                           point |-> segmentPoints(i, n)[Len(segmentPoints(i, n))] ]),
                     !.frame.segment = i,
                     !.drawn = Append(@, [flight |-> S.frame.flight, index |-> i])]
        ELSE animateFlights(
                 showAirport([S EXCEPT !.planeMarker = Null], viz.toAirport, toColorOf(S)),
                 S.frame.flight + 1, aborted, n)

(***************************************************************************)
(* App.vue: handleFileUpload.  app holds the refs the handler writes;      *)
(* filteredVisualizations is the prop of MapView, whose watch is queued    *)
(* by an assignment to it.                                                 *)
(***************************************************************************)
\* variant: failedRows counts the rows that did not parse only
PublishedResultParseFailuresOnly(csvParseResult, vizResult) ==
    [ flights |-> csvParseResult.flights,
      errors |-> csvParseResult.errors \o vizResult.errors,
      totalRows |-> csvParseResult.totalRows,
      successfulRows |-> Len(vizResult.visualizations),
      failedRows |-> csvParseResult.failedRows ]

\* parseResult.value = { ... } of the try block
PublishedResult(csvParseResult, vizResult) ==
    [ flights |-> csvParseResult.flights,
      errors |-> csvParseResult.errors \o vizResult.errors,
      totalRows |-> csvParseResult.totalRows,
      successfulRows |-> Len(vizResult.visualizations),
      failedRows |-> csvParseResult.failedRows
                     + (Len(csvParseResult.flights) - Len(vizResult.visualizations)) ]

\* "Update state" of the try block
Published(app, csvParseResult, vizResult) ==
    [app EXCEPT !.flights = csvParseResult.flights,
                !.allVisualizations = vizResult.visualizations,
                !.distinctAirportsCount = Cardinality(vizResult.distinctAirports),
                !.parseResult = PublishedResult(csvParseResult, vizResult),
                !.filteredVisualizations = vizResult.visualizations,
                !.watchPending = TRUE]

BuiltFrom(app, csvParseResult, airports, replacements) ==
    Published(app, csvParseResult,
              buildFlightVisualizations(csvParseResult.flights, airports, replacements))

\* the try block once file.text() has resolved to text
tryBlock(app, text, airports, replacements) ==
    BuiltFrom(app, parseFlightsCsv(text), airports, replacements)

\* the catch block: error is <<message>> for an Error, <<>> for anything else
catchBlock(app, error) ==
    [app EXCEPT !.parseResult =
        [ flights |-> <<>>,
          errors |-> << "Failed to read file: "
                        \o (IF error # Undefined THEN error[1] ELSE "Unknown error") >>,
          totalRows |-> 0,
          successfulRows |-> 0,
          failedRows |-> 0 ]]

finallyBlock(app) == [app EXCEPT !.isProcessing = FALSE]

\* the statements of handleFileUpload before the try block
handleFileUploadBegin(app) ==
    [app EXCEPT !.isProcessing = TRUE,
                !.parseResult = Null,
                !.flights = <<>>,
                !.allVisualizations = <<>>]

\* variant: no catch block, the rejection of file.text() leaves the handler
handleFileUploadSettledNoCatch(app, file, airports, replacements) ==
    finallyBlock(IF file.text = Undefined
                 THEN [app EXCEPT !.unhandledRejection = TRUE]
                 ELSE tryBlock(app, file.text[1], airports, replacements))

\* handleFileUpload from the moment file.text() settles: file.text is <<text>>
\* when the file was read and <<>> when reading failed with file.error
handleFileUploadSettled(app, file, airports, replacements) ==
    finallyBlock(IF file.text = Undefined
                 THEN catchBlock(app, file.error)
                 ELSE tryBlock(app, file.text[1], airports, replacements))

(***************************************************************************)
(* MapView.vue: zoom-adaptive styling                                      *)
(***************************************************************************)
RECURSIVE Pow(_, _)
Pow(b, e) == IF e = 0 THEN 1 ELSE b * Pow(b, e - 1)

\* getLineWeight(zoom) = max(0.5, min(8, 2 * 1.4 ^ (zoom - 4))), as the exact
\* fraction <<numerator, denominator>>
getLineWeight(z) ==
    LET baseZoom == 4
        baseWeight == 2
        weight == IF z >= baseZoom
                  THEN << baseWeight * Pow(14, z - baseZoom), Pow(10, z - baseZoom) >>
                  ELSE << baseWeight * Pow(10, baseZoom - z), Pow(14, baseZoom - z) >>
    IN  IF weight[1] > 8 * weight[2] THEN << 8, 1 >>
        ELSE IF 2 * weight[1] < weight[2] THEN << 1, 2 >>
        ELSE weight

\* getMarkerSize(zoom): 16 from zoom 4 on, 10 + 6 * (zoom - 2) / 2 below
getMarkerSize(z) ==
    LET baseSize == 16
        minSize == 10
        zoomRange == 4 - 2
        sizeRange == baseSize - minSize
    IN  IF z >= 4 THEN baseSize
        ELSE minSize + (sizeRange * (z - 2)) \div zoomRange

\* seq followed by copies of v up to length len: what pushing shapes styled
\* with v onto a registry does to the styles of the registry
Pushed(seq, len, v) == seq \o [k \in 1..(len - Len(seq)) |-> v]

\* updateLineWeights: line.setStyle({weight: newWeight}) on every line
updateLineWeights(weights, z) == [k \in 1..Len(weights) |-> getLineWeight(z)]

\* updateMarkerSizes: marker.setIcon(createAirportMarker(airport, color, newSize))
\* on every marker
updateMarkerSizes(sizes, z) == [k \in 1..Len(sizes) |-> getMarkerSize(z)]

(***************************************************************************)
(* MapView.vue: marker popups.  P holds currentOpenMarker, the layer whose *)
(* popup Leaflet has on the map (openPopup) and the markers whose content  *)
(* element carries the class popup-open.  A marker is named by its         *)
(* identity, a line by its place in the registry.                          *)
(***************************************************************************)
MarkerLayer(m) == [kind |-> "marker", id |-> m]

LineLayer(k) == [kind |-> "line", id |-> k]

\* variant: the popupclose handler leaves currentOpenMarker alone
popupcloseKeepsCurrent(P, m) ==
    [P EXCEPT !.popupOpenClass = @ \ {m}]

\* marker.on('popupclose', ...) of marker m
popupclose(P, m) ==
    [P EXCEPT !.currentOpenMarker = IF @ = Defined(m) THEN Undefined ELSE @,
              !.popupOpenClass = @ \ {m}]

\* Leaflet layer.closePopup(): a popup that is on the map is removed from it
\* and its layer fires popupclose
closePopup(P, layer) ==
    IF P.openPopup # Defined(layer) THEN P
    ELSE IF layer.kind = "marker"
    THEN popupclose([P EXCEPT !.openPopup = Undefined], layer.id)
    ELSE [P EXCEPT !.openPopup = Undefined]

\* marker.on('popupopen', ...) of marker m
popupopen(P, m) ==
    LET prev == P.currentOpenMarker
        closed == IF prev # Undefined /\ prev # Defined(m)
                  THEN [closePopup(P, MarkerLayer(prev[1])) EXCEPT
                            !.popupOpenClass = @ \ {prev[1]}]
                  ELSE P
    IN  [closed EXCEPT !.currentOpenMarker = Defined(m),
                       !.popupOpenClass = @ \cup {m}]

\* Leaflet layer.openPopup(): the popup on the map is closed first (autoClose),
\* then the popup of the layer is added and the layer fires popupopen
openPopupOf(P, layer) ==
    IF P.openPopup = Defined(layer) THEN P
    ELSE LET closed == IF P.openPopup # Undefined THEN closePopup(P, P.openPopup[1]) ELSE P
             opened == [closed EXCEPT !.openPopup = Defined(layer)]
         IN  IF layer.kind = "marker" THEN popupopen(opened, layer.id) ELSE opened

\* markers.forEach(marker => marker.remove()): a marker that leaves the map
\* closes its popup, and its elements go with it
removeMarkers(P, ids) ==
    LET closed == IF P.openPopup # Undefined /\ P.openPopup[1].kind = "marker"
                     /\ P.openPopup[1].id \in ids
                  THEN closePopup(P, P.openPopup[1])
                  ELSE P
    IN  [closed EXCEPT !.popupOpenClass = @ \ ids]

\* clearMarkers(), on the popup state: ids are the markers of the registry
clearMarkers(P, ids) ==
    [removeMarkers(P, ids) EXCEPT !.currentOpenMarker = Undefined]

\* clearFlightLines(), on the popup state: a line that leaves the map closes
\* its popup
clearFlightLines(P) ==
    IF P.openPopup # Undefined /\ P.openPopup[1].kind = "line"
    THEN closePopup(P, P.openPopup[1])
    ELSE P

\* the identities of count markers made now: the first count numbers that no
\* reference still holds
RECURSIVE FreshIds(_, _, _)
FreshIds(held, count, from) ==
    IF count = 0 THEN <<>>
    ELSE IF from \in held THEN FreshIds(held, count, from + 1)
    ELSE <<from>> \o FreshIds(held, count - 1, from + 1)

\* the marker identities a popup state refers to
Held(P) ==
    {P.currentOpenMarker[k] : k \in DOMAIN P.currentOpenMarker}
    \cup {P.openPopup[k].id : k \in {j \in DOMAIN P.openPopup : P.openPopup[j].kind = "marker"}}
    \cup P.popupOpenClass

(***************************************************************************)
(* Bounds                                                                  *)
(***************************************************************************)
\* data lines of an uploaded text
MaxRows == 2
\* flights handed to buildFlightVisualizations
MaxFlights == 2
\* entries of the code replacement table
MaxReplacements == 1
\* largest frequency handed to getFrequencyColor
MaxFrequency == 20
\* flight visualizations handed to the map
MaxVisualizations == 2
\* startAnimation() calls in one run
MaxPlays == 2
\* data lines of an airports text
MaxAirportRows == 2
\* flights of a dataset of the route popups
MaxRouteFlights == 3
\* points of the longest geodesic path (L.geodesic with steps: 50 and more)
MaxPathPoints == 52

(***************************************************************************)
(* Inputs                                                                  *)
(***************************************************************************)
SeqsUpTo(S, n) == UNION {[1..k -> S] : k \in 0..n}

FullHeader ==
    "airline,flight_code,departure_airport,arrival_airport,departure_timestamp_local,arrival_timestamp_local"

HeaderLines ==
    { FullHeader,
      \* other order and letter case, padded, with a column the parser ignores
      "Note, ARRIVAL_TIMESTAMP_LOCAL ,Departure_Timestamp_Local,arrival_airport,departure_airport,flight_code,airline\r",
      \* a column name twice
      "airline,flight_code,departure_airport,arrival_airport,departure_timestamp_local,arrival_timestamp_local,airline",
      \* flight_code missing
      "airline,departure_airport,arrival_airport,departure_timestamp_local,arrival_timestamp_local",
      \* three columns missing
      "airline,flight_code,departure_airport" }

DataLines ==
    { "AY,1,HEL,JFK,2024-01-15 12:30:00,2024-01-15 08:45:00",
      "LH,2,JFK,HEL,14.02.2024 10:15:00,14.02.2024 10:30:00,lh",
      "2019-07-28 20:20:00,28.07.2019 20:20:00,HEL,OLD,3,\"S,K\",x",
      "AY,,HEL,JFK,2024-01-15 12:30:00, ",
      "AY,4,HEL",
      "AY,5,HEL,ZZZ,soon,2024-01-15 08:45:00",
      "AY,6,JFK,HEL,2024-13-01 00:00:00,the day after tomorrow at half past nine",
      "  \r" }

\* the texts: nothing at all, or a header line followed by data lines, with
\* or without a newline after the last line
CsvTexts ==
    { "", " \n" } \cup
    { Join(<<h>> \o rows, "\n") \o end :
        h \in HeaderLines, rows \in SeqsUpTo(DataLines, MaxRows), end \in {"", "\n"} }

Codes == {"HEL", "JFK", "OLD"}

FlightInputs ==
    [ airline : {"AY"}, flightCode : {"1", "2"},
      departureAirport : Codes, arrivalAirport : Codes,
      departureTimestampLocal : {DateOf(1)}, arrivalTimestampLocal : {DateOf(2)} ]

\* airport tables as parseAirportsCsv builds them: each key maps to the
\* airport carrying that IATA code
AirportTables == { [c \in known |-> Airport(c)] : known \in SUBSET Codes }

ReplacementTables ==
    UNION { [old -> Codes] : old \in {d \in SUBSET Codes : Cardinality(d) <= MaxReplacements} }

\* the visualization of a flight from one airport to another, as
\* buildFlightVisualizations makes it
VisualizationOf(from, to, flightCode, departure) ==
    createFlightVisualization(
        Flight([ airline |-> "AY", flightCode |-> flightCode,
                 departureAirport |-> from, arrivalAirport |-> to,
                 departureTimestampLocal |-> DateOf(departure),
                 arrivalTimestampLocal |-> DateOf(departure + 3600) ]),
        Airport(from), Airport(to))

\* routes: one in both directions and one sharing an airport with it; and
\* departure instants
Routes == { <<"HEL", "JFK">>, <<"JFK", "HEL">>, <<"HEL", "OLD">> }

Departures == {0, 86400}

\* the datasets: the k-th flight has flight code k
VisualizationSets ==
    UNION { { [k \in 1..len |-> VisualizationOf(route[k][1], route[k][2],
                                                ToString(k), departure[k])] :
                route \in [1..len -> Routes], departure \in [1..len -> Departures] } :
            len \in 0..MaxVisualizations }

\* days, months, years and times of day of the timestamps
Days == {"01", "12", "28", "31"}
Months == {"01", "07", "12"}
Years == {"2019", "2024"}
TimesOfDay == {"00:00:00", "20:20:00", "23:59:59"}

\* YYYY-MM-DD HH:mm:ss and DD.MM.YYYY HH:mm:ss
IsoLayout(day, month, year, time) == year \o "-" \o month \o "-" \o day \o " " \o time
DottedLayout(day, month, year, time) == day \o "." \o month \o "." \o year \o " " \o time

\* strings no layout of the parser and no Date constructor reads: empty,
\* whitespace, words, and the two layouts with a month, day or hour out of range
UnparseableTimestamps ==
    { "", " ", " \t\r\n", "soon", "the day after tomorrow at half past nine",
      "28.13.2019 20:20:00", "2024-13-01 00:00:00", "32.01.2019 10:00:00",
      "28.07.2019 25:00:00", "x.y.z 1", "..", ". . ." }

TimestampInputs ==
    { pad[1] \o layout \o pad[2] :
        layout \in { IsoLayout(d, m, y, t) : d \in Days, m \in Months, y \in Years,
                                              t \in TimesOfDay }
                  \cup { DottedLayout(d, m, y, t) : d \in Days, m \in Months, y \in Years,
                                                    t \in TimesOfDay },
        pad \in { <<"", "">>, <<" ", "\r">> } }
    \cup UnparseableTimestamps

AirportHeaderLines ==
    { "iata_code,name,latitude_deg,longitude_deg",
      \* other order and letter case, padded, with an elevation
      "Name, LATITUDE_DEG ,elevation_ft,Longitude_Deg,IATA_CODE\r",
      \* no iata_code column, no coordinates columns
      "ident,name" }

\* rows: two with one code, a blank code, coordinates that are empty, no
\* number, a number followed by letters, a quoted field, a short row, a
\* row laid out for the second header
AirportDataLines ==
    { "HEL,Helsinki,60.3,24.9",
      "HEL,Vantaa,-60.4,.25",
      "JFK,\"Kennedy, John F\",40.6,-73.7\r",
      " ,Nowhere,1.0,2.0",
      "OLD,Old,north,2.0",
      "OLD,Old,1.5,",
      "OLD,Old,12abc,1e1",
      "HEL",
      "Helsinki,60.3,179,24.9,HEL",
      "Old,-,,24.9,HEL" }

AirportsCsvTexts ==
    { "", "\n \n" } \cup
    { Join(<<h>> \o rows, "\n") \o end :
        h \in AirportHeaderLines, rows \in SeqsUpTo(AirportDataLines, MaxAirportRows),
        end \in {"", "\n"} }

\* the uploaded texts: empty, a header alone, required columns missing, one
\* good row, a row whose arrival airport may be unknown, a good and a
\* malformed row, two rows that share an airport
UploadTexts ==
    { "",
      FullHeader,
      "airline,flight_code,departure_airport\nAY,4,HEL",
      FullHeader \o "\nAY,1,HEL,JFK,2024-01-15 12:30:00,2024-01-15 08:45:00",
      FullHeader \o "\nAY,3,HEL,OLD,28.07.2019 20:20:00,2019-07-28 20:20:00\n",
      FullHeader \o "\nLH,2,JFK,HEL,14.02.2024 10:15:00,14.02.2024 10:30:00\nAY,4,HEL",
      FullHeader \o "\nAY,1,HEL,JFK,2024-01-15 12:30:00,2024-01-15 08:45:00"
                 \o "\nAY,3,OLD,JFK,28.07.2019 20:20:00,2019-07-28 20:20:00" }

\* the uploaded files: file.text() resolves to a text, or rejects with an
\* Error carrying a message or with a value that is no Error
UploadFiles ==
    { [text |-> Defined(t), error |-> Undefined] : t \in UploadTexts }
    \cup { [text |-> Undefined, error |-> e] :
             e \in {Defined("The requested file could not be read"), Undefined} }

\* replacement tables: any retired codes, each with any target, chains and
\* self-references included
LookupReplacementTables ==
    UNION { [retired -> Codes] : retired \in SUBSET Codes }

\* datasets of up to MaxRouteFlights flights between two airports, in both
\* directions, and from an airport back to itself (departure_airport and
\* arrival_airport of a row may be the same code); the k-th flight has
\* flight code k
RouteSets ==
    UNION { { [k \in 1..len |-> VisualizationOf(route[k][1], route[k][2], ToString(k), 0)] :
                route \in [1..len -> { <<"HEL", "JFK">>, <<"JFK", "HEL">>,
                                        <<"HEL", "OLD">>, <<"HEL", "HEL">> }] } :
            len \in 1..MaxRouteFlights }

\* the datasets of the scene specifications: none, one route, two routes
\* from one airport
SceneSets ==
    { <<>>,
      << VisualizationOf("HEL", "JFK", "1", 0) >>,
      << VisualizationOf("HEL", "JFK", "1", 0), VisualizationOf("HEL", "OLD", "2", 0) >> }

\* zoom levels: below, at and above the base zoom 4 of both style functions
Zooms == {3, 4, 5}

\* numbers of points of a geodesic path: fewer than numSegments, exactly
\* numSegments, and more
PathLengths == {9, 10, 11}

(***************************************************************************)
(* Specifications of the pipeline functions: the input is drawn in the     *)
(* initial state, the action applies the function                          *)
(***************************************************************************)
\* the map as mounted: setView(..., 4), nothing drawn, no popup
SceneIdle ==
    /\ zoom = 4
    /\ markerIds = <<>>
    /\ markerSizes = <<>>
    /\ lineWeights = <<>>
    /\ routeZoom = <<>>
    /\ currentOpenMarker = Undefined
    /\ openPopup = Undefined
    /\ popupOpenClass = {}
    /\ hovered = Undefined

sceneVars == <<zoom, markerIds, markerSizes, lineWeights, routeZoom,
               currentOpenMarker, openPopup, popupOpenClass, hovered>>

popupVars == <<currentOpenMarker, openPopup, popupOpenClass>>

\* App as set up: no upload yet, the airports database not loaded
AppIdle ==
    /\ isProcessing = FALSE
    /\ parseResult = Null
    /\ appFlights = <<>>
    /\ allVisualizations = <<>>
    /\ distinctAirportsCount = 0
    /\ appAirportsMap = <<>>
    /\ codeReplacements = <<>>
    /\ isLoadingAirports = TRUE
    /\ uploading = Undefined
    /\ unhandledRejection = FALSE
    /\ selectedYear = Undefined

\* no text handed to the parsers of the reference data and of timestamps
LookupIdle == lookupIn = Null /\ lookupOut = Undefined

ParsersIdle ==
    /\ airportsCsv = "" /\ airportsOut = Undefined
    /\ timestampIn = "" /\ timestampOut = Undefined
    /\ LookupIdle

parserVars == <<airportsCsv, airportsOut, timestampIn, timestampOut, lookupIn, lookupOut>>

PipelineIdle ==
    /\ csvContent = "" /\ parseOut = Null
    /\ buildIn = Null /\ buildOut = Null
    /\ colorIn = Null /\ colorOut = Undefined

pipelineFrame == <<csvContent, parseOut, buildIn, buildOut, colorIn, colorOut>>

appVars == <<isProcessing, parseResult, appFlights, allVisualizations, distinctAirportsCount,
             appAirportsMap, codeReplacements, isLoadingAirports, uploading,
             unhandledRejection, selectedYear>>

MapIdle ==
    /\ SceneIdle
    /\ AppIdle
    /\ flightVisualizations = <<>>
    /\ pathLen = 2
    /\ isAnimating = FALSE
    /\ animationAborted = FALSE
    /\ planeMarker = Null
    /\ markers = <<>>
    /\ flightLines = <<>>
    /\ watchPending = FALSE
    /\ loops = <<>>
    /\ timers = <<>>
    /\ trace = <<>>

\* the state of the map component and of App.vue
mapFrame == <<flightVisualizations, pathLen, isAnimating, animationAborted,
              planeMarker, markers, flightLines, watchPending, loops, timers, trace,
              sceneVars, appVars>>

mapVars == <<flightVisualizations, pathLen, isAnimating, animationAborted,
             planeMarker, markers, flightLines, watchPending, loops, timers, trace,
             sceneVars, appVars, parserVars>>

InitParse ==
    /\ csvContent \in CsvTexts
    /\ parseOut = Null
    /\ buildIn = Null /\ buildOut = Null
    /\ colorIn = Null /\ colorOut = Undefined
    /\ ParsersIdle
    /\ MapIdle

ParseCsv ==
    /\ parseOut = Null
    /\ parseOut' = parseFlightsCsv(csvContent)
    /\ UNCHANGED <<csvContent, buildIn, buildOut, colorIn, colorOut, mapVars>>

NextParse == ParseCsv

SpecParse == InitParse /\ [][NextParse]_vars

InitBuild ==
    /\ buildIn \in [ flights : SeqsUpTo(FlightInputs, MaxFlights),
                     airportsMap : AirportTables,
                     replacements : ReplacementTables ]
    /\ buildOut = Null
    /\ csvContent = "" /\ parseOut = Null
    /\ colorIn = Null /\ colorOut = Undefined
    /\ ParsersIdle
    /\ MapIdle

BuildVisualizations ==
    /\ buildOut = Null
    /\ buildOut' = buildFlightVisualizations(buildIn.flights, buildIn.airportsMap,
                                             buildIn.replacements)
    /\ UNCHANGED <<csvContent, parseOut, buildIn, colorIn, colorOut, mapVars>>

NextBuild == BuildVisualizations

SpecBuild == InitBuild /\ [][NextBuild]_vars

InitColor ==
    /\ colorIn \in [frequency : 0..MaxFrequency, maxFrequency : 0..MaxFrequency]
    /\ colorOut = Undefined
    /\ csvContent = "" /\ parseOut = Null
    /\ buildIn = Null /\ buildOut = Null
    /\ ParsersIdle
    /\ MapIdle

FrequencyColor ==
    /\ colorOut = Undefined
    /\ colorOut' = Defined(getFrequencyColor(colorIn.frequency, colorIn.maxFrequency))
    /\ UNCHANGED <<csvContent, parseOut, buildIn, buildOut, colorIn, mapVars>>

NextColor == FrequencyColor

SpecColor == InitColor /\ [][NextColor]_vars

InitAirports ==
    /\ airportsCsv \in AirportsCsvTexts
    /\ airportsOut = Undefined
    /\ timestampIn = "" /\ timestampOut = Undefined
    /\ LookupIdle
    /\ PipelineIdle
    /\ MapIdle

ParseAirports ==
    /\ airportsOut = Undefined
    /\ airportsOut' = Defined(parseAirportsCsv(airportsCsv))
    /\ UNCHANGED <<airportsCsv, timestampIn, timestampOut, lookupIn, lookupOut,
                   pipelineFrame, mapFrame>>

NextAirports == ParseAirports

SpecAirports == InitAirports /\ [][NextAirports]_vars

InitTimestamp ==
    /\ timestampIn \in TimestampInputs
    /\ timestampOut = Undefined
    /\ airportsCsv = "" /\ airportsOut = Undefined
    /\ LookupIdle
    /\ PipelineIdle
    /\ MapIdle

ParseTimestamp ==
    /\ timestampOut = Undefined
    /\ timestampOut' = Defined(parseTimestamp(timestampIn))
    /\ UNCHANGED <<timestampIn, airportsCsv, airportsOut, lookupIn, lookupOut,
                   pipelineFrame, mapFrame>>

NextTimestamp == ParseTimestamp

SpecTimestamp == InitTimestamp /\ [][NextTimestamp]_vars

\* getAirportByCode(code, airportsMap, replacements) on every code, airport
\* table and replacement table over Codes
InitLookup ==
    /\ lookupIn \in [ code : Codes, airportsMap : AirportTables,
                       replacements : LookupReplacementTables ]
    /\ lookupOut = Undefined
    /\ airportsCsv = "" /\ airportsOut = Undefined
    /\ timestampIn = "" /\ timestampOut = Undefined
    /\ PipelineIdle
    /\ MapIdle

Lookup ==
    /\ lookupOut = Undefined
    /\ lookupOut' = Defined(getAirportByCode(lookupIn.code, lookupIn.airportsMap,
                                             lookupIn.replacements))
    /\ UNCHANGED <<lookupIn, airportsCsv, airportsOut, timestampIn, timestampOut,
                   pipelineFrame, mapFrame>>

NextLookup == Lookup

SpecLookup == InitLookup /\ [][NextLookup]_vars

(***************************************************************************)
(* The map and the play toggle.  A step runs from one suspension of the    *)
(* event loop to the next: a click handler, the watch callback, or a timer *)
(* callback with everything that runs until the next sleep(50).            *)
(***************************************************************************)
\* visualizeFlights tabulated over the datasets and path lengths of the model
\* (@@ makes the table an explicit function, computed once)
StaticScene ==
    [ in \in VisualizationSets \X PathLengths |-> visualizeFlights(in[1], in[2]) ] @@ <<>>

\* the scene of a dataset over a path of n points
SceneOf(visualizations, n) ==
    IF n \in PathLengths /\ visualizations \in VisualizationSets
    THEN StaticScene[<<visualizations, n>>]
    ELSE visualizeFlights(visualizations, n)

\* the state the map component does not touch
pipelineVars == <<pipelineFrame, appVars, parserVars>>

Range(f) == {f[k] : k \in DOMAIN f}

\* currentOpenMarker, the popup Leaflet has on the map and the popup-open classes
PopupState ==
    [ currentOpenMarker |-> currentOpenMarker,
      openPopup |-> openPopup,
      popupOpenClass |-> popupOpenClass ]

SetPopupState(P) ==
    /\ currentOpenMarker' = P.currentOpenMarker
    /\ openPopup' = P.openPopup
    /\ popupOpenClass' = P.popupOpenClass

\* variant: the registry is not emptied
Kept(registry) == registry

\* markers.length = 0 / flightLines.length = 0
Emptied(registry) == <<>>

\* clearMarkers() and clearFlightLines() followed by the pushes that leave
\* markers' and flightLines': the shapes are made at the current zoom, the
\* popups of the shapes removed are closed
Redrawn ==
    LET P == clearFlightLines(clearMarkers(PopupState, Range(markerIds)))
    IN  /\ SetPopupState(P)
        /\ markerIds' = FreshIds(Held(P), Len(markers'), 1)
        /\ markerSizes' = Pushed(<<>>, Len(markers'), getMarkerSize(zoom))
        /\ lineWeights' = Pushed(<<>>, Len(flightLines'), getLineWeight(zoom))
        /\ hovered' = Undefined

\* the map is mounted and empty; App has just set filteredVisualizations
Init ==
    /\ csvContent = "" /\ parseOut = Null
    /\ buildIn = Null /\ buildOut = Null
    /\ colorIn = Null /\ colorOut = Undefined
    /\ AppIdle
    /\ ParsersIdle
    /\ flightVisualizations \in VisualizationSets
    /\ pathLen \in PathLengths
    /\ isAnimating = FALSE
    /\ animationAborted = FALSE
    /\ planeMarker = Null
    /\ markers = <<>>
    /\ flightLines = <<>>
    /\ watchPending = TRUE
    /\ loops = <<>>
    /\ timers = <<>>
    /\ trace = <<>>
    /\ SceneIdle

\* watch(() => props.flightVisualizations, ...): visualizeFlights(newVisualizations)
Watch ==
    /\ watchPending
    /\ watchPending' = FALSE
    /\ LET scene == SceneOf(flightVisualizations, pathLen)
       IN  /\ markers' = Emptied(markers) \o scene.markers
           /\ flightLines' = Emptied(flightLines) \o scene.flightLines
    /\ Redrawn
    /\ UNCHANGED <<pipelineVars, flightVisualizations, pathLen, isAnimating,
                   animationAborted, planeMarker, loops, timers, trace, zoom, routeZoom>>

\* handlePlayToggle with isAnimating false: startAnimation() runs until its
\* first sleep; the play control is rendered when there are visualizations
Play ==
    /\ ~watchPending
    /\ ~isAnimating
    /\ Len(flightVisualizations) > 0
    /\ Len(loops) < MaxPlays
    /\ LET S == animateFlights(
                    [ markers |-> Emptied(markers), flightLines |-> Emptied(flightLines),
                      planeMarker |-> planeMarker,
                      frame |-> Frame(flightVisualizations), drawn |-> <<>> ],
                    1, FALSE, pathLen)
       IN  /\ animationAborted' = FALSE
           /\ markers' = S.markers
           /\ flightLines' = S.flightLines
           /\ planeMarker' = S.planeMarker
           /\ loops' = Append(loops, S.frame)
           /\ trace' = Append(trace, S.drawn)
           /\ timers' = IF S.frame.done THEN timers ELSE Append(timers, Len(loops) + 1)
           /\ isAnimating' = ~S.frame.done
    /\ Redrawn
    /\ routeZoom' = Append(routeZoom, zoom)
    /\ UNCHANGED <<pipelineVars, flightVisualizations, pathLen, watchPending, zoom>>

\* handlePlayToggle with isAnimating true: stopAnimation()
Stop ==
    /\ ~watchPending
    /\ isAnimating
    /\ isAnimating' = FALSE
    /\ animationAborted' = TRUE
    /\ planeMarker' = Null
    /\ LET scene == SceneOf(flightVisualizations, pathLen)
       IN  /\ markers' = Emptied(markers) \o scene.markers
           /\ flightLines' = Emptied(flightLines) \o scene.flightLines
    /\ Redrawn
    /\ UNCHANGED <<pipelineVars, flightVisualizations, pathLen, watchPending,
                   loops, timers, trace, zoom, routeZoom>>

\* the oldest sleep(50) timer expires: its call goes on after the await until
\* it sleeps again or returns, and then() sets isAnimating to false
Tick ==
    /\ ~watchPending
    /\ timers # <<>>
    /\ LET l == Head(timers)
           S == animateFlightRoute(
                    [ markers |-> markers, flightLines |-> flightLines,
                      planeMarker |-> planeMarker, frame |-> loops[l], drawn |-> trace[l] ],
                    loops[l].segment + 1, animationAborted, pathLen)
       IN  /\ markers' = S.markers
           /\ flightLines' = S.flightLines
           /\ planeMarker' = S.planeMarker
           /\ loops' = [loops EXCEPT ![l] = S.frame]
           /\ trace' = [trace EXCEPT ![l] = S.drawn]
           /\ timers' = IF S.frame.done THEN Tail(timers) ELSE Append(Tail(timers), l)
           /\ isAnimating' = IF S.frame.done THEN FALSE ELSE isAnimating
           \* const currentZoom = map.getZoom() is read when animateFlightRoute is
           \* entered, and every segment of that flight is made with it
           /\ routeZoom' = [routeZoom EXCEPT ![l] =
                                IF S.frame.flight # loops[l].flight THEN zoom ELSE @]
           /\ lineWeights' = Pushed(lineWeights, Len(flightLines'),
                                    getLineWeight(routeZoom'[l]))
    /\ markerSizes' = Pushed(markerSizes, Len(markers'), getMarkerSize(zoom))
    /\ markerIds' = markerIds \o FreshIds(Held(PopupState) \cup Range(markerIds),
                                          Len(markers') - Len(markerIds), 1)
    /\ UNCHANGED <<pipelineVars, flightVisualizations, pathLen, animationAborted,
                   watchPending, zoom, popupVars, hovered>>

Next == Watch \/ Play \/ Stop \/ Tick

Spec == Init /\ [][Next]_vars

(***************************************************************************)
(* Playbacks that are never cancelled: the play control is not clicked     *)
(* while a playback runs.  Every sleep(50) is a timer of the browser, which *)
(* fires: the step that resumes the loop is taken when it stays enabled.   *)
(***************************************************************************)
NextPlayback == Watch \/ Play \/ Tick

\* a sleep(50) timer is pending and the watch callback has run: Tick is enabled
TimerPending == ~watchPending /\ timers # <<>>

\* the steps of NextPlayback that are Tick steps: a timer was pending and no
\* call of startAnimation was added
TimerFires == TimerPending /\ Len(loops') = Len(loops)

\* weak fairness of Tick, that is WF_vars(Tick) written out as
\* []<>~ENABLED <<Tick>>_vars \/ []<><<Tick>>_vars
TickFairness == ([]<>~TimerPending) \/ ([]<><<TimerFires>>_vars)

SpecPlayback == Init /\ [][NextPlayback]_vars /\ TickFairness

(***************************************************************************)
(* The static scene: popups, hover, zoom and changes of the dataset        *)
(***************************************************************************)
InitPopup ==
    /\ Init
    /\ flightVisualizations \in SceneSets
    /\ pathLen \in {9, 10}

\* handleFilterChanged (or an upload): props.flightVisualizations becomes
\* another array and the watch callback is queued; it runs before any other
\* event or timer
FilterChanged ==
    /\ ~watchPending
    /\ flightVisualizations' \in SceneSets
    /\ watchPending' = TRUE
    /\ UNCHANGED <<pipelineVars, pathLen, isAnimating, animationAborted, planeMarker,
                   markers, flightLines, loops, timers, trace, sceneVars>>

\* a click on a marker with a popup: Leaflet closes the popup if it is the one
\* on the map and opens it otherwise
MarkerClick ==
    /\ ~watchPending
    /\ \E k \in 1..Len(markers) :
          /\ markers[k].popup # Undefined
          /\ LET layer == MarkerLayer(markerIds[k])
             IN  SetPopupState(IF openPopup = Defined(layer)
                               THEN closePopup(PopupState, layer)
                               ELSE openPopupOf(PopupState, layer))
    /\ UNCHANGED <<pipelineVars, flightVisualizations, pathLen, isAnimating,
                   animationAborted, planeMarker, markers, flightLines, watchPending,
                   loops, timers, trace, zoom, markerIds, markerSizes, lineWeights,
                   routeZoom, hovered>>

\* a click on a segment of a route that has a popup: middleSegment.openPopup()
LineClick ==
    /\ ~watchPending
    /\ \E k \in 1..Len(flightLines) :
          /\ flightLines[k].click # Undefined
          /\ LET middle == CHOOSE j \in 1..Len(flightLines) :
                               /\ flightLines[j].from = flightLines[k].from
                               /\ flightLines[j].to = flightLines[k].to
                               /\ flightLines[j].index = flightLines[k].click[1]
             IN  SetPopupState(openPopupOf(PopupState, LineLayer(middle)))
    /\ UNCHANGED <<pipelineVars, flightVisualizations, pathLen, isAnimating,
                   animationAborted, planeMarker, markers, flightLines, watchPending,
                   loops, timers, trace, zoom, markerIds, markerSizes, lineWeights,
                   routeZoom, hovered>>

\* the popup on the map is closed by its close button, a click on the map or
\* the Escape key
PopupClosed ==
    /\ ~watchPending
    /\ openPopup # Undefined
    /\ SetPopupState(closePopup(PopupState, openPopup[1]))
    /\ UNCHANGED <<pipelineVars, flightVisualizations, pathLen, isAnimating,
                   animationAborted, planeMarker, markers, flightLines, watchPending,
                   loops, timers, trace, zoom, markerIds, markerSizes, lineWeights,
                   routeZoom, hovered>>

\* the pointer moves onto a marker or off the markers: :hover is a matter of
\* the style sheet, no handler runs
Hover ==
    /\ ~watchPending
    /\ hovered' \in ({Undefined} \cup {Defined(m) : m \in Range(markerIds)}) \ {hovered}
    /\ UNCHANGED <<pipelineVars, flightVisualizations, pathLen, isAnimating,
                   animationAborted, planeMarker, markers, flightLines, watchPending,
                   loops, timers, trace, zoom, markerIds, markerSizes, lineWeights,
                   routeZoom, popupVars>>

\* marker.setIcon(newIcon): the content of the icon element is written anew
\* from the html of createAirportMarker, which has no class popup-open
setIcon(P, ids) == [P EXCEPT !.popupOpenClass = @ \ ids]

\* map.on('zoomend', ...): the zoom has changed; updateLineWeights() and
\* updateMarkerSizes()
ZoomEnd ==
    /\ ~watchPending
    /\ zoom' \in Zooms \ {zoom}
    /\ lineWeights' = updateLineWeights(lineWeights, zoom')
    /\ markerSizes' = updateMarkerSizes(markerSizes, zoom')
    /\ SetPopupState(setIcon(PopupState, Range(markerIds)))
    /\ UNCHANGED <<pipelineVars, flightVisualizations, pathLen, isAnimating,
                   animationAborted, planeMarker, markers, flightLines, watchPending,
                   loops, timers, trace, markerIds, routeZoom, hovered>>

NextPopup ==
    Watch \/ FilterChanged \/ MarkerClick \/ LineClick \/ PopupClosed \/ Hover \/ ZoomEnd

SpecPopup == InitPopup /\ [][NextPopup]_vars

(***************************************************************************)
(* Properties of the pipeline                                              *)
(***************************************************************************)
\* s contains sub as a substring
Contains(s, sub) ==
    \E i \in 1..(Len(s) - Len(sub) + 1) : SubSeq(s, i, i + Len(sub) - 1) = sub

StartsWith(s, prefix) == Len(s) >= Len(prefix) /\ SubSeq(s, 1, Len(prefix)) = prefix

\* the non-blank lines of a text: the header line and the data lines
TextLines(text) == FilterSeq(Split(text, "\n"), NonBlank)

DataRowCount(text) == Len(TextLines(text)) - 1

HasHeader(text) == Len(TextLines(text)) > 0

MissingFromHeader(text) ==
    {col \in {REQUIRED_COLUMNS[k] : k \in 1..Len(REQUIRED_COLUMNS)} :
        ~SeqIncludes(HeadersOf(TextLines(text)[1]), col)}

HeaderComplete(text) == HasHeader(text) /\ MissingFromHeader(text) = {}

\* a code resolves: it is a key of the airport table, or it is not and its
\* replacement target is
Resolves(code, in) ==
    \/ code \in DOMAIN in.airportsMap
    \/ /\ code \in DOMAIN in.replacements
       /\ in.replacements[code] \in DOMAIN in.airportsMap

BothResolve(flight, in) ==
    Resolves(flight.departureAirport, in) /\ Resolves(flight.arrivalAirport, in)

\* C1: buildFlightVisualizations emits a visualization for a flight iff both
\* its departure and its arrival code resolve (directly, or through the
\* replacement target when the direct lookup misses): the visualizations are,
\* in order, the input flights for which both resolve, and as many.
C1_VisualizedIffBothResolve ==
    buildOut # Null =>
        LET resolved == FilterSeq(buildIn.flights, LAMBDA f : BothResolve(f, buildIn))
        IN  /\ Len(buildOut.visualizations)
                 = Cardinality({i \in 1..Len(buildIn.flights) :
                                   BothResolve(buildIn.flights[i], buildIn)})
            /\ Len(buildOut.visualizations) = Len(resolved)
            /\ \A k \in 1..Len(resolved) : buildOut.visualizations[k].flight = resolved[k]

\* C1 witness: one flight visualized thanks to a replacement, another dropped
C1_Witness ==
    /\ buildOut # Null
    /\ \E i \in 1..Len(buildIn.flights) :
          /\ buildIn.flights[i].departureAirport \notin DOMAIN buildIn.airportsMap
          /\ BothResolve(buildIn.flights[i], buildIn)
    /\ \E i \in 1..Len(buildIn.flights) : ~BothResolve(buildIn.flights[i], buildIn)
    /\ Len(buildOut.visualizations) = 1

\* C2: for a text whose header has all six required columns and that has N
\* non-blank data lines, totalRows = N, successfulRows + failedRows = N and
\* flights holds exactly successfulRows records.
C2_RowCountsAddUp ==
    (parseOut # Null /\ HeaderComplete(csvContent)) =>
        /\ parseOut.totalRows = DataRowCount(csvContent)
        /\ parseOut.successfulRows + parseOut.failedRows = DataRowCount(csvContent)
        /\ Len(parseOut.flights) = parseOut.successfulRows

\* C2 witness: a complete header, a blank line among the data lines, a row
\* that parsed and a row with an invalid timestamp
C2_Witness ==
    /\ parseOut # Null
    /\ HeaderComplete(csvContent)
    /\ Len(Split(csvContent, "\n")) > Len(TextLines(csvContent))
    /\ parseOut.successfulRows = 1
    /\ parseOut.failedRows = 1
    /\ \E k \in 1..Len(parseOut.errors) : Contains(parseOut.errors[k], "Invalid timestamp")

\* C3: when the header lacks a required column no data row is parsed: no
\* flights, exactly one error message, which names every missing column,
\* successfulRows = 0 and failedRows = totalRows = number of non-blank data lines.
C3_MissingColumnsShortCircuit ==
    (parseOut # Null /\ HasHeader(csvContent) /\ MissingFromHeader(csvContent) # {}) =>
        /\ parseOut.flights = <<>>
        /\ Len(parseOut.errors) = 1
        /\ \A col \in MissingFromHeader(csvContent) : Contains(parseOut.errors[1], col)
        /\ parseOut.successfulRows = 0
        /\ parseOut.failedRows = parseOut.totalRows
        /\ parseOut.totalRows = DataRowCount(csvContent)

\* C3 witness: several columns missing, and data lines to be counted as failed
C3_Witness ==
    /\ parseOut # Null
    /\ HasHeader(csvContent)
    /\ Cardinality(MissingFromHeader(csvContent)) >= 2
    /\ DataRowCount(csvContent) = 2
    /\ parseOut.failedRows = 2

\* the results of parsing the header line followed by one data line alone,
\* for each data line of the text in turn
AloneResults(text) ==
    LET lines == TextLines(text)
    IN  [k \in 1..(Len(lines) - 1) |->
            parseFlightsCsv(lines[1] \o "\n" \o lines[k + 1])] \o <<>>

\* the row numbers (the header is row 1) of the data lines that give
\* `count` flights when parsed alone
RowsWithFlights(alone, count) ==
    FilterSeq([k \in 1..Len(alone) |-> k + 1],
              LAMBDA i : Len(alone[i - 1].flights) = count)

\* C4: each data row is handled on its own: a failing row adds exactly one
\* error message and no Flight and does not stop the rows after it, so
\* errors.length = failedRows, the k-th message is about the k-th failing row,
\* and the Flights are those of the valid rows, in input order.
C4_RowsIndependent ==
    (parseOut # Null /\ HeaderComplete(csvContent)) =>
        LET alone == AloneResults(csvContent)
            failing == RowsWithFlights(alone, 0)
            passing == RowsWithFlights(alone, 1)
        IN  /\ Len(parseOut.errors) = parseOut.failedRows
            /\ \A k \in 1..Len(alone) :
                  Len(alone[k].flights) + Len(alone[k].errors) = 1
            /\ Len(parseOut.errors) = Len(failing)
            /\ \A k \in 1..Len(failing) :
                  StartsWith(parseOut.errors[k], "Row " \o ToString(failing[k]) \o ":")
            /\ Len(parseOut.flights) = Len(passing)
            /\ \A k \in 1..Len(passing) :
                  parseOut.flights[k] = alone[passing[k] - 1].flights[1]

\* C4 witness: a row with two invalid timestamps is followed by a valid row
C4_Witness ==
    /\ parseOut # Null
    /\ HeaderComplete(csvContent)
    /\ DataRowCount(csvContent) = 2
    /\ Len(parseOut.errors) = 1
    /\ StartsWith(parseOut.errors[1], "Row 2:")
    /\ Contains(parseOut.errors[1], "departure_timestamp_local=")
    /\ Contains(parseOut.errors[1], "arrival_timestamp_local=")
    /\ Len(parseOut.flights) = 1

\* the endpoints of the input flights that do not resolve, one per flight and field
UnresolvedEndpoints(in) ==
    {<<i, "departure">> : i \in {j \in 1..Len(in.flights) :
                                    ~Resolves(in.flights[j].departureAirport, in)}}
    \cup
    {<<i, "arrival">> : i \in {j \in 1..Len(in.flights) :
                                  ~Resolves(in.flights[j].arrivalAirport, in)}}

\* C5: every endpoint code that fails to resolve is in unresolvedAirports and
\* has its own error message, so a flight whose two endpoints both fail
\* contributes two errors and both codes.
C5_EveryUnresolvedEndpointReported ==
    buildOut # Null =>
        /\ \A i \in 1..Len(buildIn.flights) :
              /\ ~Resolves(buildIn.flights[i].departureAirport, buildIn)
                    => buildIn.flights[i].departureAirport \in buildOut.unresolvedAirports
              /\ ~Resolves(buildIn.flights[i].arrivalAirport, buildIn)
                    => buildIn.flights[i].arrivalAirport \in buildOut.unresolvedAirports
        /\ Len(buildOut.errors) = Cardinality(UnresolvedEndpoints(buildIn))

\* C10: with max > 0 the color is blue for count/max <= 0.15, cyan up to 0.30,
\* green up to 0.50, orange up to 0.75 and red above, each boundary in the
\* lower band; with max = 0 it is the default color for every count.
C10_FrequencyBands ==
    colorOut # Undefined =>
        LET f == colorIn.frequency
            m == colorIn.maxFrequency
            c == colorOut[1]
        IN  /\ m = 0 => c = DefaultBlue
            /\ m > 0 =>
                /\ (20 * f <= 3 * m) <=> (c = Blue)
                /\ (20 * f > 3 * m /\ 10 * f <= 3 * m) <=> (c = Cyan)
                /\ (10 * f > 3 * m /\ 2 * f <= m) <=> (c = Green)
                /\ (2 * f > m /\ 4 * f <= 3 * m) <=> (c = Orange)
                /\ (4 * f > 3 * m) <=> (c = Red)

\* C10 witness: the ratio is exactly 0.15 and the color is blue
C10_Witness ==
    /\ colorOut = Defined(Blue)
    /\ colorIn.frequency = 3
    /\ colorIn.maxFrequency = 20

(***************************************************************************)
(* Properties of the map and the playback                                  *)
(***************************************************************************)
\* what a suspended startAnimation() call would do if its timer expired now
Resumed(l) ==
    animateFlightRoute(
        [ markers |-> markers, flightLines |-> flightLines,
          planeMarker |-> planeMarker, frame |-> loops[l], drawn |-> trace[l] ],
        loops[l].segment + 1, animationAborted, pathLen)

\* the call has not returned and adds a marker or a line when it goes on
WouldDraw(l) ==
    /\ ~loops[l].done
    /\ \/ Len(Resumed(l).markers) > Len(markers)
       \/ Len(Resumed(l).flightLines) > Len(flightLines)

\* C6: once stopAnimation has been called and every suspended playback loop
\* has unwound, the marker and line registries hold exactly the scene that
\* visualizeFlights produces for the dataset, and there is no plane marker:
\* the cancelled loop has added nothing after the static redraw.
C6_StopLeavesStaticScene ==
    (animationAborted /\ timers = <<>>) =>
        /\ markers = visualizeFlights(flightVisualizations, pathLen).markers
        /\ flightLines = visualizeFlights(flightVisualizations, pathLen).flightLines
        /\ planeMarker = Null

\* C7: at most one playback loop is active: only the loop of the latest Play
\* can still draw a marker or a segment, and only while isAnimating is true.
C7_OnlyLatestLoopDrawsWhileAnimating ==
    \A l \in 1..Len(loops) : WouldDraw(l) => (l = Len(loops) /\ isAnimating)

\* the position in the dataset of a flight of a playback (flight codes are
\* the positions)
InputIndex(viz) ==
    CHOOSE k \in 1..Len(flightVisualizations) : flightVisualizations[k] = viz

\* C8: in every playback the flights are taken in ascending order of
\* departure instant, flights of one instant in input order; the segments are
\* drawn flight by flight, the first segment of a flight right after the last
\* segment of the flight before it, and within a flight in increasing index
\* without leaving out a drawable one.
C8_PlaybackOrder ==
    \A l \in 1..Len(loops) :
        LET sorted == loops[l].sortedFlights
            drawable == DrawnIndices(pathLen)
            Place(e) == CHOOSE k \in 1..Len(drawable) : drawable[k] = e.index
        IN  /\ Len(sorted) = Len(flightVisualizations)
            /\ \A k \in 1..Len(flightVisualizations) : SeqIncludes(sorted, flightVisualizations[k])
            /\ \A p, q \in 1..Len(sorted) :
                  p < q =>
                    \/ sorted[p].departureTimestamp.time < sorted[q].departureTimestamp.time
                    \/ /\ sorted[p].departureTimestamp.time = sorted[q].departureTimestamp.time
                       /\ InputIndex(sorted[p]) < InputIndex(sorted[q])
            /\ \A a \in 1..Len(trace[l]) :
                  /\ SeqIncludes(drawable, trace[l][a].index)
                  /\ a = 1 => (trace[l][a].flight = 1 /\ Place(trace[l][a]) = 1)
                  /\ a > 1 =>
                        \/ /\ trace[l][a].flight = trace[l][a - 1].flight
                           /\ Place(trace[l][a]) = Place(trace[l][a - 1]) + 1
                        \/ /\ trace[l][a].flight = trace[l][a - 1].flight + 1
                           /\ Place(trace[l][a - 1]) = Len(drawable)
                           /\ Place(trace[l][a]) = 1

\* C8 witness: a playback has gone through two flights given in the opposite
\* order of their departures, ten segments each
C8_Witness ==
    \E l \in 1..Len(loops) :
        /\ loops[l].done
        /\ Len(loops[l].sortedFlights) = 2
        /\ loops[l].sortedFlights[1] = flightVisualizations[2]
        /\ Len(trace[l]) = 2 * numSegments
        /\ trace[l][numSegments + 1] = [flight |-> 2, index |-> 0]

\* the static scene has just been drawn by visualizeFlights
StaticDrawn == ~watchPending /\ loops = <<>>

\* the two airports of a flight or of a drawn segment, in no order
PairOfFlight(viz) == {viz.fromAirport.iataCode, viz.toAirport.iataCode}

PairOfLine(line) == {line.from, line.to}

\* the flight numbers of the flights of the dataset from one airport to another
NumbersFromTo(from, to) ==
    MapSeq(FilterSeq(flightVisualizations,
                     LAMBDA f : f.fromAirport.iataCode = from /\ f.toAirport.iataCode = to),
           LAMBDA f : f.flight.airline \o " " \o f.flight.flightCode)

\* the flight numbers a popup section lists, none when the section is absent
NumbersListed(section) ==
    IF section = Undefined THEN <<>>
    ELSE MapSeq(section[1].flights, LAMBDA info : info.number)

NextZoom == Watch \/ Play \/ Tick \/ ZoomEnd

SpecZoom == InitPopup /\ [][NextZoom]_vars

(***************************************************************************)
(* Routes over geodesic paths of every length from 2 points on, drawn by   *)
(* visualizeFlights and by a playback that runs to its end                 *)
(***************************************************************************)
InitSegments ==
    /\ PipelineIdle
    /\ AppIdle
    /\ ParsersIdle
    /\ flightVisualizations \in SceneSets \ {<<>>}
    /\ pathLen \in 2..MaxPathPoints
    /\ isAnimating = FALSE
    /\ animationAborted = FALSE
    /\ planeMarker = Null
    /\ markers = <<>>
    /\ flightLines = <<>>
    /\ watchPending = TRUE
    /\ loops = <<>>
    /\ timers = <<>>
    /\ trace = <<>>
    /\ SceneIdle

NextSegments == Watch \/ Play \/ Tick

SpecSegments == InitSegments /\ [][NextSegments]_vars

(***************************************************************************)
(* The static scene of datasets with several flights on a route            *)
(***************************************************************************)
InitRoutes ==
    /\ PipelineIdle
    /\ AppIdle
    /\ ParsersIdle
    /\ flightVisualizations \in RouteSets
    /\ pathLen \in {numSegments, numSegments + 1}
    /\ isAnimating = FALSE
    /\ animationAborted = FALSE
    /\ planeMarker = Null
    /\ markers = <<>>
    /\ flightLines = <<>>
    /\ watchPending = TRUE
    /\ loops = <<>>
    /\ timers = <<>>
    /\ trace = <<>>
    /\ SceneIdle

NextRoutes == Watch \/ LineClick

SpecRoutes == InitRoutes /\ [][NextRoutes]_vars

(***************************************************************************)
(* Rebuilds of the scene over whatever is on the map: another dataset, a   *)
(* filtered one, a playback running or cancelled                           *)
(***************************************************************************)
NextScene == Watch \/ FilterChanged \/ Play \/ Stop \/ Tick

SpecScene == InitPopup /\ [][NextScene]_vars

(***************************************************************************)
(* Uploads: the airports database loads in the background, the file input  *)
(* is disabled while isProcessing or isAnimating                           *)
(***************************************************************************)
AppState ==
    [ isProcessing |-> isProcessing,
      parseResult |-> parseResult,
      flights |-> appFlights,
      allVisualizations |-> allVisualizations,
      distinctAirportsCount |-> distinctAirportsCount,
      filteredVisualizations |-> flightVisualizations,
      watchPending |-> watchPending,
      unhandledRejection |-> unhandledRejection ]

SetAppState(app) ==
    /\ isProcessing' = app.isProcessing
    /\ parseResult' = app.parseResult
    /\ appFlights' = app.flights
    /\ allVisualizations' = app.allVisualizations
    /\ distinctAirportsCount' = app.distinctAirportsCount
    /\ flightVisualizations' = app.filteredVisualizations
    /\ watchPending' = app.watchPending
    /\ unhandledRejection' = app.unhandledRejection

uploadFrame == <<pipelineFrame, pathLen, isAnimating, animationAborted, planeMarker,
                 markers, flightLines, loops, timers, trace, sceneVars, parserVars>>

\* onMounted of App.vue: loadAirportsWithReplacements() has resolved
AirportsLoaded ==
    /\ isLoadingAirports
    /\ appAirportsMap' \in AirportTables
    /\ codeReplacements' \in ReplacementTables
    /\ isLoadingAirports' = FALSE
    /\ UNCHANGED <<uploadFrame, isProcessing, parseResult, appFlights, allVisualizations,
                   distinctAirportsCount, flightVisualizations, watchPending,
                   unhandledRejection, uploading, selectedYear>>

\* the user picks a file: handleFileUpload up to await file.text(); with
\* flightVisualizations empty the v-if of App.vue unmounts YearFilter, and the
\* instance mounted after the upload starts with selectedYear ''
UploadStart ==
    /\ ~isProcessing /\ ~isAnimating
    /\ \E file \in UploadFiles : uploading' = Defined(file)
    /\ SetAppState(handleFileUploadBegin(AppState))
    /\ selectedYear' = Undefined
    /\ UNCHANGED <<uploadFrame, appAirportsMap, codeReplacements, isLoadingAirports>>

\* file.text() settles: the rest of handleFileUpload
UploadSettled ==
    /\ uploading # Undefined
    /\ SetAppState(handleFileUploadSettled(AppState, uploading[1], appAirportsMap,
                                           codeReplacements))
    /\ uploading' = Undefined
    /\ UNCHANGED <<uploadFrame, appAirportsMap, codeReplacements, isLoadingAirports,
                   selectedYear>>

NextUpload == AirportsLoaded \/ UploadStart \/ UploadSettled

InitUpload == Init /\ flightVisualizations = <<>> /\ pathLen = 10

SpecUpload == InitUpload /\ [][NextUpload]_vars

(***************************************************************************)
(* YearFilter.vue: the year filter of a session                            *)
(***************************************************************************)
\* viz.departureTimestamp.getFullYear(), on the calendar of DateParse
getFullYear(date) == 2000 + ((date.time \div 86400) \div 372)

\* availableYears: the years of the visualizations
availableYears(visualizations) ==
    { getFullYear(visualizations[k].departureTimestamp) : k \in 1..Len(visualizations) }

\* filteredVisualizations: every visualization when selectedYear is '', those
\* departing in the selected year otherwise
filteredVisualizations(visualizations, year) ==
    IF year = Undefined
    THEN visualizations
    ELSE LET InYear(viz) == getFullYear(viz.departureTimestamp) = year[1]
         IN  SelectSeq(visualizations, InYear)

\* the options of the select: All years and the available years
YearOptions(visualizations) ==
    {Undefined} \cup { Defined(year) : year \in availableYears(visualizations) }

\* the user picks another option of the select: onYearChange emits
\* filterChanged, handleFilterChanged replaces filteredVisualizations and the
\* watch callback of MapView is queued.  YearFilter is rendered when there are
\* visualizations; it declares no disabled prop and its select has no
\* disabled binding, so the option can be picked whatever isAnimating is
YearChange ==
    /\ ~watchPending
    /\ Len(allVisualizations) > 0
    /\ \E option \in YearOptions(allVisualizations) \ {selectedYear} :
          /\ selectedYear' = option
          /\ flightVisualizations' = filteredVisualizations(allVisualizations, option)
    /\ watchPending' = TRUE
    /\ UNCHANGED <<pipelineFrame, parserVars, isProcessing, parseResult, appFlights,
                   allVisualizations, distinctAirportsCount, appAirportsMap,
                   codeReplacements, isLoadingAirports, uploading, unhandledRejection,
                   pathLen, isAnimating, animationAborted, planeMarker, markers,
                   flightLines, loops, timers, trace, sceneVars>>

\* handlePlayToggle in a session: PlayControl is rendered when App.vue
\* flightVisualizations (the unfiltered ones) is not empty
PlayShown == Play /\ Len(allVisualizations) > 0

\* a session once the airports database has loaded: files are uploaded, the
\* year is filtered, playbacks are started and stopped
NextSession ==
    \/ UploadStart
    \/ UploadSettled
    \/ YearChange
    \/ Watch
    \/ PlayShown
    \/ Stop
    \/ Tick

\* the airports database of a session: HEL and JFK are known, OLD is a
\* retired code replaced by HEL
SessionTables ==
    [ airportsMap |-> [c \in {"HEL", "JFK"} |-> Airport(c)],
      replacements |-> [c \in {"OLD"} |-> "HEL"] ]

\* onMounted of App.vue has loaded the airports database, nothing is uploaded
InitSession ==
    /\ PipelineIdle
    /\ ParsersIdle
    /\ isProcessing = FALSE
    /\ parseResult = Null
    /\ appFlights = <<>>
    /\ allVisualizations = <<>>
    /\ distinctAirportsCount = 0
    /\ appAirportsMap = SessionTables.airportsMap
    /\ codeReplacements = SessionTables.replacements
    /\ isLoadingAirports = FALSE
    /\ uploading = Undefined
    /\ unhandledRejection = FALSE
    /\ selectedYear = Undefined
    /\ flightVisualizations = <<>>
    /\ pathLen = numSegments - 1
    /\ isAnimating = FALSE
    /\ animationAborted = FALSE
    /\ planeMarker = Null
    /\ markers = <<>>
    /\ flightLines = <<>>
    /\ watchPending = TRUE
    /\ loops = <<>>
    /\ timers = <<>>
    /\ trace = <<>>
    /\ SceneIdle

SpecSession == InitSession /\ [][NextSession]_vars

(***************************************************************************)
(* Properties of the static scene                                          *)
(***************************************************************************)
\* the marker whose popup Leaflet has on the map, <<>> if there is none or
\* the popup is that of a line
MarkerWithOpenPopup ==
    IF openPopup # Undefined /\ openPopup[1].kind = "marker"
    THEN Defined(openPopup[1].id)
    ELSE Undefined

\* C11: in the static scene, whatever popups were opened and closed and
\* however often the scene was rebuilt, currentOpenMarker is the one marker
\* whose popup is open (null when no marker popup is open), it is a marker of
\* the current registry, and no other marker carries the expanded state: the
\* marker whose popup was open before has been closed and has lost it
C11_OneOpenMarkerTracked ==
    /\ currentOpenMarker = MarkerWithOpenPopup
    /\ \A k \in DOMAIN currentOpenMarker : currentOpenMarker[k] \in Range(markerIds)
    /\ popupOpenClass \subseteq Range(currentOpenMarker)

\* the popup of the second marker of a rebuilt scene is open, and only that
\* marker is expanded
C11_Witness ==
    /\ Len(markers) >= 2
    /\ ~watchPending
    /\ currentOpenMarker = Defined(markerIds[2])
    /\ openPopup = Defined(MarkerLayer(markerIds[2]))
    /\ popupOpenClass = {markerIds[2]}

\* C12: the markers that carry the expanded state (class popup-open) are
\* exactly the markers whose popup is open, whatever hover and zoom events
\* have happened since the popup was opened
C12_ExpandedIffPopupOpen ==
    popupOpenClass = Range(MarkerWithOpenPopup)


(***************************************************************************)
(* Properties of the builder's airport count                               *)
(***************************************************************************)
\* C15: distinctAirports returned by buildFlightVisualizations is exactly the
\* set of the departure and arrival codes of all input flights, resolved or
\* not, visualized or skipped.
C15_DistinctAirportsAllCodes ==
    buildOut # Null =>
        buildOut.distinctAirports
          = UNION { {buildIn.flights[i].departureAirport, buildIn.flights[i].arrivalAirport} :
                      i \in 1..Len(buildIn.flights) }

\* C15 witness: a flight skipped at its departure airport, whose arrival code
\* occurs in no other flight and is unknown too, next to a visualized flight
C15_Witness ==
    /\ buildOut # Null
    /\ Len(buildIn.flights) = 2
    /\ Len(buildOut.visualizations) = 1
    /\ \E i \in 1..2 :
          /\ ~Resolves(buildIn.flights[i].departureAirport, buildIn)
          /\ ~Resolves(buildIn.flights[i].arrivalAirport, buildIn)
          /\ buildIn.flights[i].arrivalAirport # buildIn.flights[i].departureAirport
          /\ buildIn.flights[i].arrivalAirport
               \notin {buildIn.flights[3 - i].departureAirport,
                        buildIn.flights[3 - i].arrivalAirport}
    /\ Cardinality(buildOut.distinctAirports) = 3

(***************************************************************************)
(* Properties of the airports parser                                       *)
(***************************************************************************)
\* the text has a prefix, leading whitespace aside, that reads as a number
ReadsAsNumber(s) ==
    \E n \in 1..Len(TrimStart(s)) : IsDecimalLiteral(SubSeq(TrimStart(s), 1, n))

AirportsLinesIn == FilterSeq(Split(airportsCsv, "\n"), NonBlank)

\* the field of a column in the i-th non-blank line of the text
AirportsFieldIn(i, name) ==
    AirportField(parseCsvLine(AirportsLinesIn[i]), HeadersOf(AirportsLinesIn[1]), name)

\* the data rows with an IATA code and with coordinates that read as numbers
AirportsRowsKept ==
    {i \in 2..Len(AirportsLinesIn) :
        /\ AirportsFieldIn(i, "iata_code") # ""
        /\ ReadsAsNumber(AirportsFieldIn(i, "latitude_deg"))
        /\ ReadsAsNumber(AirportsFieldIn(i, "longitude_deg"))}

\* C16: the table parseAirportsCsv returns has exactly the IATA codes of the
\* rows that have one and whose latitude and longitude parse as numbers (the
\* other rows are skipped, nothing is raised), each key maps to an airport
\* with that iataCode, and it is the airport of the last such row with the
\* code.
C16_OneAirportPerCode ==
    airportsOut # Undefined =>
        LET table == airportsOut[1]
        IN  /\ DOMAIN table = {AirportsFieldIn(i, "iata_code") : i \in AirportsRowsKept}
            /\ \A code \in DOMAIN table :
                  LET last == CHOOSE i \in AirportsRowsKept :
                                  /\ AirportsFieldIn(i, "iata_code") = code
                                  /\ \A j \in AirportsRowsKept :
                                        AirportsFieldIn(j, "iata_code") = code => j <= i
                  IN  /\ table[code].iataCode = code
                      /\ table[code].name = AirportsFieldIn(last, "name")
                      /\ table[code].coordinates[1].literal
                           = SubSeq(AirportsFieldIn(last, "latitude_deg"), 1,
                                    Len(table[code].coordinates[1].literal))

\* C16 witness: two rows with the code HEL and good coordinates; the table
\* holds the airport of the second
C16_Witness ==
    /\ airportsOut # Undefined
    /\ Len(AirportsLinesIn) = 3
    /\ AirportsRowsKept = {2, 3}
    /\ DOMAIN airportsOut[1] = {"HEL"}
    /\ airportsOut[1]["HEL"].name = "Vantaa"

\* a row without a code, or with a coordinate that is no number, came after
\* a good row and left the table as it was
C16_WitnessSkipped ==
    /\ airportsOut # Undefined
    /\ Len(AirportsLinesIn) = 3
    /\ AirportsRowsKept = {2}
    /\ DOMAIN airportsOut[1] = {"HEL"}

(***************************************************************************)
(* Properties of the airport lookup                                        *)
(***************************************************************************)
\* C27: getAirportByCode returns the airport stored under the code whenever
\* there is one, whatever the replacement table says about the code; when
\* there is none and the code has a replacement, it returns what is stored
\* under the target, or nothing if the target is no key (even if the target
\* has a replacement of its own); otherwise nothing.  The function reads
\* both tables (get, has) and writes neither.
C27_DirectThenSingleHop ==
    lookupOut # Undefined =>
        LET code == lookupIn.code
            table == lookupIn.airportsMap
            replaced == lookupIn.replacements
        IN  /\ code \in DOMAIN table => lookupOut[1] = Defined(table[code])
            /\ (code \notin DOMAIN table /\ code \in DOMAIN replaced
                   /\ replaced[code] \in DOMAIN table)
                  => lookupOut[1] = Defined(table[replaced[code]])
            /\ (code \notin DOMAIN table /\ code \in DOMAIN replaced
                   /\ replaced[code] \notin DOMAIN table)
                  => lookupOut[1] = Undefined
            /\ (code \notin DOMAIN table /\ code \notin DOMAIN replaced)
                  => lookupOut[1] = Undefined

\* the tables of a lookup are the ones handed in
LookupKeepsTables == [][lookupIn' = lookupIn]_vars

\* C27 witness: the code is no key, its target is no key either, and the
\* target's own replacement is one: the lookup has returned nothing
C27_Witness ==
    /\ lookupOut = Defined(Undefined)
    /\ lookupIn.code \notin DOMAIN lookupIn.airportsMap
    /\ lookupIn.code \in DOMAIN lookupIn.replacements
    /\ lookupIn.replacements[lookupIn.code] \notin DOMAIN lookupIn.airportsMap
    /\ lookupIn.replacements[lookupIn.code] \in DOMAIN lookupIn.replacements
    /\ lookupIn.replacements[lookupIn.replacements[lookupIn.code]]
          \in DOMAIN lookupIn.airportsMap

\* the code is a key and has a replacement whose target is another key: the
\* airport of the code itself was returned
C27_WitnessDirect ==
    /\ lookupOut = Defined(Defined(Airport("OLD")))
    /\ lookupIn.code = "OLD"
    /\ "OLD" \in DOMAIN lookupIn.replacements
    /\ lookupIn.replacements["OLD"] = "HEL"
    /\ "HEL" \in DOMAIN lookupIn.airportsMap

\* the airport of the replacement target was returned
C27_WitnessReplaced ==
    /\ lookupOut = Defined(Defined(Airport("HEL")))
    /\ lookupIn.code = "OLD"

(***************************************************************************)
(* Properties of the timestamp parser                                      *)
(***************************************************************************)
\* C17: for a string DD.MM.YYYY HH:mm:ss parseTimestamp returns a date, the
\* one it returns for YYYY-MM-DD HH:mm:ss with the same day, month, year and
\* time; for an empty, whitespace-only or unparseable string it returns null.
C17_DottedSameInstantAsIso ==
    timestampOut # Undefined =>
        /\ \A d \in Days, m \in Months, y \in Years, t \in TimesOfDay :
              Trim(timestampIn) = DottedLayout(d, m, y, t) =>
                  /\ timestampOut[1] # Null
                  /\ timestampOut[1] = parseTimestamp(IsoLayout(d, m, y, t))
                  /\ timestampOut[1] = DateParse(IsoLayout(d, m, y, t))
        /\ timestampIn \in UnparseableTimestamps => timestampOut[1] = Null

\* C17 witness: 28.07.2019 20:20:00 was parsed to the instant of
\* 2019-07-28 20:20:00
C17_Witness ==
    /\ timestampIn = "28.07.2019 20:20:00"
    /\ timestampOut = Defined(DateParse("2019-07-28 20:20:00"))
    /\ DateParse("2019-07-28 20:20:00") # InvalidDate

\* an unparseable string was handed in and null came back
C17_WitnessUnparseable ==
    /\ timestampIn = "28.13.2019 20:20:00"
    /\ timestampOut = Defined(Null)

(***************************************************************************)
(* Properties of a playback that runs to its end                           *)
(***************************************************************************)
IsPrefix(s, t) == Len(s) <= Len(t) /\ SubSeq(t, 1, Len(s)) = s

\* the segments a call has drawn for its k-th flight
SegmentsDrawn(l, k) == {j \in 1..Len(trace[l]) : trace[l][j].flight = k}

\* C18: a playback that is never cancelled finishes: isAnimating returns to
\* false; no flight takes more than numSegments segment steps; and the step
\* in which the playback ends keeps what the playback drew (every line and
\* marker drawn so far stays, the lines are the segments the playback drew
\* and nothing is drawn again as the static scene).
C18_PlaybackFinishes ==
    /\ isAnimating ~> ~isAnimating
    /\ [](\A l \in 1..Len(loops) : \A k \in 1..Len(loops[l].sortedFlights) :
              Cardinality(SegmentsDrawn(l, k)) <= numSegments)
    /\ [][(isAnimating /\ ~isAnimating') =>
              /\ loops'[Len(loops)].done
              /\ IsPrefix(flightLines, flightLines')
              /\ IsPrefix(markers, markers')
              /\ Len(flightLines') = Len(trace'[Len(loops)])
              /\ planeMarker' = Null]_vars

\* C18 witness: a playback of two flights has ended, its twenty segments
\* are on the map
C18_Witness ==
    /\ Len(loops) = 1
    /\ loops[1].done
    /\ ~isAnimating
    /\ Len(flightVisualizations) = 2
    /\ Len(trace[1]) = 2 * numSegments
    /\ Len(flightLines) = 2 * numSegments

(***************************************************************************)
(* Properties of the zoom-adaptive styling                                 *)
(***************************************************************************)
\* C19: once a zoom change has been handled, every line of the registry has
\* the weight getLineWeight(zoom) and every marker the size
\* getMarkerSize(zoom), in the static scene and during a playback, the
\* segments drawn after the zoom change included.
C19_StylesFollowZoom ==
    /\ Len(lineWeights) = Len(flightLines)
    /\ Len(markerSizes) = Len(markers)
    /\ \A k \in 1..Len(lineWeights) : lineWeights[k] = getLineWeight(zoom)
    /\ \A k \in 1..Len(markerSizes) : markerSizes[k] = getMarkerSize(zoom)

\* the zoom handler restyles the shapes and leaves both registries as they are
ZoomKeepsRegistries ==
    [][zoom' # zoom => /\ markers' = markers
                       /\ flightLines' = flightLines
                       /\ markerIds' = markerIds
                       /\ \A k \in 1..Len(lineWeights') : lineWeights'[k] = getLineWeight(zoom')
                       /\ \A k \in 1..Len(markerSizes') : markerSizes'[k] = getMarkerSize(zoom')]_vars

\* in the static scene the styles follow the zoom
StaticStylesFollowZoom == (loops = <<>>) => C19_StylesFollowZoom

(***************************************************************************)
(* Properties of a rebuild of the scene                                    *)
(***************************************************************************)
\* the step runs visualizeFlights(props.flightVisualizations): the watch
\* callback, or stopAnimation
Rebuilds == (watchPending /\ ~watchPending') \/ (~animationAborted /\ animationAborted')

AirportCodesOf(visualizations) ==
    UNION { {visualizations[k].fromAirport.iataCode, visualizations[k].toAirport.iataCode} :
              k \in 1..Len(visualizations) }

\* C20: after visualizeFlights(V), whatever the registries held before, they
\* hold one marker for each distinct airport of V, the segments of the routes
\* of V, and no shape registered before the call: the scene is the one V
\* alone determines (so the same for the same V), and empty for an empty V.
C20_SceneDependsOnDataset ==
    [][Rebuilds =>
        /\ markers' = StaticScene[<<flightVisualizations', pathLen>>].markers
        /\ flightLines' = StaticScene[<<flightVisualizations', pathLen>>].flightLines
        /\ Len(markers') = Cardinality(AirportCodesOf(flightVisualizations'))
        /\ {markers'[k].airport.iataCode : k \in 1..Len(markers')}
             = AirportCodesOf(flightVisualizations')
        /\ \A k \in 1..Len(flightLines') :
              \E j \in 1..Len(flightVisualizations') :
                  {flightLines'[k].from, flightLines'[k].to}
                    = {flightVisualizations'[j].fromAirport.iataCode,
                       flightVisualizations'[j].toAirport.iataCode}
        /\ Len(markerIds') = Len(markers')
        /\ Cardinality(Range(markerIds')) = Len(markers')
        /\ (flightVisualizations' = <<>> => markers' = <<>> /\ flightLines' = <<>>)]_vars

\* C20 witness: the scene of one flight has just been rebuilt by
\* stopAnimation over what a playback of that flight had drawn so far
C20_Witness ==
    /\ animationAborted
    /\ ~isAnimating
    /\ Len(loops) = 1 /\ ~loops[1].done
    /\ Len(trace[1]) >= 2
    /\ Len(flightVisualizations) = 1
    /\ Len(markers) = 2
    /\ flightLines = visualizeFlights(flightVisualizations, pathLen).flightLines

\* the filter has left no flight while a playback was drawing, and the rebuild
\* has emptied both registries
C20_WitnessEmptied ==
    /\ flightVisualizations = <<>>
    /\ ~watchPending
    /\ Len(loops) >= 1
    /\ markers = <<>>
    /\ flightLines = <<>>

(***************************************************************************)
(* Properties of the flight list of a route                                *)
(***************************************************************************)
\* how often a flight number occurs in a list of numbers
Occurrences(numbers, number) ==
    Cardinality({j \in 1..Len(numbers) : numbers[j] = number})

NumberOf(viz) == viz.flight.airline \o " " \o viz.flight.flightCode

\* the popup of a route lists every flight between the two airports of the
\* route once, in the outbound group if it flies in the direction the route
\* was drawn in, else in the return group
ListsEachFlightOnce(line) ==
    LET onRoute == {k \in 1..Len(flightVisualizations) :
                      PairOfFlight(flightVisualizations[k]) = PairOfLine(line)}
        outbound == NumbersListed(line.popup[1].outbound)
        return == NumbersListed(line.popup[1].return)
    IN  /\ Len(outbound) + Len(return) = Cardinality(onRoute)
        /\ \A k \in onRoute :
              LET viz == flightVisualizations[k]
                  sameDirection == /\ viz.fromAirport.iataCode = line.from
                                   /\ viz.toAirport.iataCode = line.to
              IN  /\ Occurrences(outbound \o return, NumberOf(viz)) = 1
                  /\ sameDirection => Occurrences(outbound, NumberOf(viz)) = 1
                  /\ ~sameDirection => Occurrences(return, NumberOf(viz)) = 1

\* C29: in the popup of every route drawn by visualizeFlights each flight
\* under the route key is listed exactly once, outbound if it has the
\* direction of the first flight of the key, else return; the two counts add
\* up to the number of flights under the key.
C29_EachFlightListedOnce ==
    ~watchPending =>
        \A k \in 1..Len(flightLines) :
            flightLines[k].popup # Undefined => ListsEachFlightOnce(flightLines[k])

\* the same for the datasets in which no flight returns to the airport it left
ListedOnceBetweenTwoAirports ==
    (\A k \in 1..Len(flightVisualizations) :
        flightVisualizations[k].fromAirport.iataCode # flightVisualizations[k].toAirport.iataCode)
      => C29_EachFlightListedOnce

\* the popup of the route of a single flight from HEL to HEL lists the
\* flight in both groups
ListedTwice ==
    /\ ~watchPending
    /\ Len(flightVisualizations) = 1
    /\ \E k \in 1..Len(flightLines) :
          /\ flightLines[k].popup # Undefined
          /\ NumbersListed(flightLines[k].popup[1].outbound) = << "AY 1" >>
          /\ NumbersListed(flightLines[k].popup[1].return) = << "AY 1" >>

(***************************************************************************)
(* Properties of the segments of a route                                   *)
(***************************************************************************)
\* `rgb(r, g, b)` of a hex color, as interpolateColor writes colors
RgbOf(hex) ==
    "rgb(" \o ToString(hexToRgb(hex).r) \o ", " \o ToString(hexToRgb(hex).g) \o ", "
           \o ToString(hexToRgb(hex).b) \o ")"

\* the static scene is drawn, or the latest playback has returned
SceneComplete ==
    /\ ~watchPending
    /\ ~isAnimating
    /\ flightLines # <<>>

\* the lines of the registry drawn for a flight
LinesOf(viz) ==
    FilterSeq(flightLines, LAMBDA line : /\ line.from = viz.fromAirport.iataCode
                                         /\ line.to = viz.toAirport.iataCode)

LastPoint(line) == line.points[Len(line.points)]

\* segs cuts a path of n points into numSegments runs of at least 2 points,
\* each starting at the point the one before ends at, from point 0 to point
\* n - 1, colored with ratio i / 9 from fromColor to toColor
TenSegments(segs, n, fromColor, toColor) ==
    /\ Len(segs) = numSegments
    /\ \A k \in 1..numSegments :
          /\ segs[k].index = k - 1
          /\ Len(segs[k].points) >= 2
          /\ \A q \in 2..Len(segs[k].points) : segs[k].points[q] = segs[k].points[q - 1] + 1
          /\ segs[k].color = interpolateColor(fromColor, toColor, <<k - 1, numSegments - 1>>)
    /\ segs[1].points[1] = 0
    /\ LastPoint(segs[numSegments]) = n - 1
    /\ \A k \in 1..(numSegments - 1) : LastPoint(segs[k]) = segs[k + 1].points[1]
    /\ segs[1].color = RgbOf(fromColor)
    /\ segs[numSegments].color = RgbOf(toColor)

RoutesInTenSegments ==
    \A k \in 1..Len(flightVisualizations) :
        LET viz == flightVisualizations[k]
            frequency == airportFrequency(flightVisualizations)
        IN  TenSegments(LinesOf(viz), pathLen,
                        getFrequencyColor(frequency[viz.fromAirport.iataCode],
                                          maxFrequency(frequency)),
                        getFrequencyColor(frequency[viz.toAirport.iataCode],
                                          maxFrequency(frequency)))

\* C25 as stated: for every path of at least 2 points the segments of a
\* route, drawn by visualizeFlights or by a playback, are exactly 10 of at
\* least 2 points each, consecutive ones share their boundary point, together
\* they cover the path in order, and segment i has the color of ratio i / 9,
\* the first the departure color and the last the arrival color.
C25_TenSegmentsEveryPath == SceneComplete => RoutesInTenSegments

\* C25 amended: the same for the paths of at least numSegments + 1 points.
C25_TenSegmentsFromElevenPoints ==
    (SceneComplete /\ pathLen >= numSegments + 1) => RoutesInTenSegments

\* C25 witness: a playback over paths of 51 points has returned, each of its
\* segments of 6 points
C25_Witness ==
    /\ SceneComplete
    /\ pathLen = 51
    /\ loops # <<>>
    /\ Len(flightLines) = Len(flightVisualizations) * numSegments
    /\ Len(flightLines[1].points) = 6
    /\ Len(flightLines[numSegments].points) = 6

\* the static scene over paths of 11 points
C25_WitnessStatic ==
    /\ SceneComplete
    /\ pathLen = numSegments + 1
    /\ loops = <<>>
    /\ Len(flightLines) = Len(flightVisualizations) * numSegments

\* a path of 10 points drawn in 9 segments, the last one made at loop index 8
NineSegments ==
    /\ SceneComplete
    /\ pathLen = numSegments
    /\ Len(flightLines) = numSegments - 1
    /\ flightLines[numSegments - 1].index = numSegments - 2

(***************************************************************************)
(* Properties of the popup of a route                                      *)
(***************************************************************************)
\* the route of line k of the registry has a segment made at loop index
\* middleSegmentIndex that carries the popup, and line k opens it on a click
RoutePopupOnMiddle(k) ==
    /\ flightLines[k].click = Defined(middleSegmentIndex)
    /\ \E j \in 1..Len(flightLines) :
          /\ flightLines[j].from = flightLines[k].from
          /\ flightLines[j].to = flightLines[k].to
          /\ flightLines[j].index = middleSegmentIndex
          /\ flightLines[j].popup # Undefined

\* C24: in the scene drawn by visualizeFlights every route (the geodesic
\* paths of the model have 9 or 10 points) has its flight list bound to the
\* segment made at loop index 4, and every segment of the route opens that
\* popup on a click.
C24_PopupOnSegmentFour ==
    (~watchPending /\ loops = <<>>) =>
        \A k \in 1..Len(flightLines) : RoutePopupOnMiddle(k)

\* the same for the paths of at least numSegments points
LongPathPopupOnSegmentFour == (pathLen >= numSegments) => C24_PopupOnSegmentFour

\* a popup that comes onto the map for a line is the one of a segment made
\* at loop index 4
LineClickOpensMiddle ==
    [][(openPopup' # openPopup /\ openPopup' # Undefined /\ openPopup'[1].kind = "line")
          => /\ flightLines[openPopup'[1].id].index = middleSegmentIndex
             /\ flightLines[openPopup'[1].id].popup # Undefined]_vars

\* a route drawn as a single segment, made at loop index 9, without popup
RouteWithoutPopup ==
    /\ ~watchPending
    /\ Len(flightLines) = 1
    /\ flightLines[1].index = numSegments - 1
    /\ Len(flightLines[1].points) >= 2
    /\ flightLines[1].popup = Undefined
    /\ flightLines[1].click = Undefined

(***************************************************************************)
(* Properties of the markers of a playback                                 *)
(***************************************************************************)
\* the airports a playback has touched when it sleeps in flight number
\* `flight` of sorted, or has returned: the departures up to that flight and
\* the arrivals of the flights before it, all of them once it has returned
Touched(sorted, flight, done) ==
    {sorted[j].fromAirport.iataCode : j \in 1..flight}
    \cup {sorted[j].toAirport.iataCode : j \in 1..(IF done THEN flight ELSE flight - 1)}

MarkerCodes == {markers[k].airport.iataCode : k \in 1..Len(markers)}

\* C23: during a playback that is not cancelled the registry holds one marker
\* for each airport touched so far and no other: the departure airport of a
\* flight from before its first segment, its arrival airport from after its
\* last segment, never a second marker for an airport already shown; when
\* the playback has returned there is exactly one marker per distinct airport
\* of the dataset.
C23_OneMarkerPerShownAirport ==
    (loops # <<>> /\ ~watchPending) =>
        LET F == loops[Len(loops)]
            touched == Touched(F.sortedFlights, F.flight, F.done)
        IN  /\ MarkerCodes = touched
            /\ Len(markers) = Cardinality(touched)
            /\ F.shownAirports = touched
            /\ F.done => /\ touched = AirportCodesOf(flightVisualizations)
                          /\ Len(markers) = Cardinality(AirportCodesOf(flightVisualizations))

\* C23 witness: a playback of two flights that share an airport has returned
C23_Witness ==
    /\ loops # <<>>
    /\ loops[Len(loops)].done
    /\ ~isAnimating
    /\ Len(flightVisualizations) = 2
    /\ Len(markers) = 3
    /\ Len(trace[Len(loops)]) = 2 * numSegments

\* the second flight of a playback is in the air: its departure airport was
\* shown by the first flight, its arrival airport has no marker yet
C23_WitnessInFlight ==
    /\ loops # <<>>
    /\ ~loops[Len(loops)].done
    /\ loops[Len(loops)].flight = 2
    /\ Len(markers) = 2
    /\ Cardinality(AirportCodesOf(flightVisualizations)) = 3

(***************************************************************************)
(* Properties of a cancelled playback                                      *)
(***************************************************************************)
\* C22: while the abort flag set by stopAnimation stays set (no playback is
\* started), no startAnimation() call draws a further segment or goes on to
\* a further flight, and a call whose sleep ends leaves at once: it has
\* returned when the step is over, with no line added to the registry.
C22_AbortedLoopUnwinds ==
    [][(animationAborted /\ animationAborted') =>
        /\ Len(loops') = Len(loops)
        /\ \A l \in 1..Len(loops) :
              /\ trace'[l] = trace[l]
              /\ loops'[l].flight = loops[l].flight
              /\ loops'[l].segment = loops[l].segment
        /\ (timers # <<>> /\ timers' # timers) =>
              /\ loops'[Head(timers)].done
              /\ timers' = Tail(timers)
              /\ flightLines' = flightLines]_vars

\* C22 witness: a playback of two flights was stopped during its first
\* flight, its timer has expired since, and it has returned with the
\* segments it had drawn before the stop and without starting the second
C22_Witness ==
    /\ animationAborted
    /\ timers = <<>>
    /\ Len(loops) = 1
    /\ loops[1].done
    /\ Len(loops[1].sortedFlights) = 2
    /\ loops[1].flight = 1
    /\ Len(trace[1]) \in 1..(numSegments - 1)

(***************************************************************************)
(* Properties of the airport colors                                        *)
(***************************************************************************)
RECURSIVE SumOf(_, _)
SumOf(f, keys) ==
    IF keys = {} THEN 0
    ELSE LET key == CHOOSE c \in keys : TRUE
         IN  f[key] + SumOf(f, keys \ {key})

\* the flights of the dataset that leave from code, and those that arrive at it
DeparturesFrom(code) ==
    {k \in 1..Len(flightVisualizations) : flightVisualizations[k].fromAirport.iataCode = code}

ArrivalsAt(code) ==
    {k \in 1..Len(flightVisualizations) : flightVisualizations[k].toAirport.iataCode = code}

\* the marker the static scene of the dataset has for code
StaticMarkerOf(code) ==
    LET scene == SceneOf(flightVisualizations, pathLen).markers
    IN  scene[CHOOSE k \in 1..Len(scene) : scene[k].airport.iataCode = code]

\* C28: for one dataset, every startAnimation() call counts for each airport
\* the flights that leave from it plus those that arrive at it, as the
\* static scene does, the counts sum to twice the number of flights, and
\* every marker on the map, drawn by visualizeFlights or by a playback, has
\* the color the static scene gives its airport; a marker keeps its color
\* while the playback goes on.
C28_SameFrequencyAndColor ==
    [][~watchPending' =>
        /\ \A l \in 1..Len(loops') :
              LET frequency == loops'[l].airportFrequency
              IN  /\ DOMAIN frequency = AirportCodesOf(flightVisualizations)
                  /\ \A code \in DOMAIN frequency :
                        /\ frequency[code] = Cardinality(DeparturesFrom(code))
                                              + Cardinality(ArrivalsAt(code))
                        /\ frequency[code] = StaticMarkerOf(code).popup[1].frequency
                  /\ SumOf(frequency, DOMAIN frequency) = 2 * Len(flightVisualizations)
        /\ \A k \in 1..Len(markers') :
              markers'[k].color = StaticMarkerOf(markers'[k].airport.iataCode).color
        /\ (isAnimating /\ isAnimating') =>
              \A k \in 1..Len(markers) : k <= Len(markers') /\ markers'[k] = markers[k]]_vars

\* C28 witness: a playback of two flights from one airport has returned; the
\* shared airport has the color of the top frequency, the others another
C28_Witness ==
    /\ ~watchPending
    /\ loops # <<>>
    /\ loops[Len(loops)].done
    /\ ~animationAborted
    /\ Len(markers) = 3
    /\ markers[1].popup = Undefined
    /\ markers[1].color # markers[2].color
    /\ loops[Len(loops)].airportFrequency[markers[1].airport.iataCode] = 2

(***************************************************************************)
(* Properties of the plane marker                                          *)
(***************************************************************************)
\* a startAnimation() call sleeps between two segments of a flight
FlightInTheAir == \E l \in 1..Len(loops) : ~loops[l].done

\* C26: the plane marker (the one marker planeMarker refers to, which
\* showPlaneMarker replaces and never doubles) is on the map only while a
\* playback is in progress and a flight is being animated; when the playback
\* has ended, by completion or by stopAnimation, there is none, whatever the
\* order of play, stop and timer steps.
C26_PlaneOnlyDuringPlayback ==
    (planeMarker # Null) => (isAnimating /\ FlightInTheAir)

\* the same as long as play was pressed once only
PlaneOnlyDuringFirstPlayback == (Len(loops) <= 1) => C26_PlaneOnlyDuringPlayback

\* a plane marker is on the map although the playback has ended: the call of
\* an earlier, stopped playback went on drawing after play was pressed again
PlaneAfterPlaybackEnded ==
    /\ ~isAnimating
    /\ planeMarker # Null
    /\ Len(loops) = 2

(***************************************************************************)
(* Properties of the upload                                                *)
(***************************************************************************)
\* file.text() of the upload in flight settles in this step
UploadEnds == uploading # Undefined /\ uploading' = Undefined

\* C13: whatever the uploaded file (rows that parse, rows that fail, missing
\* columns, an empty file, a file that cannot be read), handleFileUpload ends
\* with parseResult non-null and isProcessing false, and its promise is not
\* rejected.
C13_UploadEndsWithResult ==
    [][UploadEnds => /\ parseResult' # Null
                     /\ isProcessing' = FALSE
                     /\ unhandledRejection' = FALSE]_vars

\* C13 witness: an upload whose file could not be read has ended with the
\* failure reported, after an earlier upload that drew flights
C13_Witness ==
    /\ uploading = Undefined
    /\ ~isProcessing
    /\ parseResult # Null
    /\ parseResult.errors = <<"Failed to read file: Unknown error">>
    /\ flightVisualizations # <<>>

\* the tables handleFileUpload hands to buildFlightVisualizations
AppTables == [airportsMap |-> appAirportsMap, replacements |-> codeReplacements]

\* C14: in the result an upload publishes, successfulRows is the number of
\* visualizations, successfulRows + failedRows = totalRows, and every parsed
\* flight with an airport that does not resolve is counted in failedRows and
\* has a message in errors.
C14_PublishedCountsAddUp ==
    [][UploadEnds =>
        LET result == parseResult'
            unresolved == {i \in 1..Len(result.flights) :
                              ~BothResolve(result.flights[i], AppTables)}
        IN  /\ result.successfulRows = Len(allVisualizations')
            /\ result.successfulRows + result.failedRows = result.totalRows
            /\ result.failedRows
                 = (result.totalRows - Len(result.flights)) + Cardinality(unresolved)
            /\ \A i \in unresolved :
                  \E k \in 1..Len(result.errors) :
                      StartsWith(result.errors[k],
                                 "Flight " \o result.flights[i].airline \o " "
                                 \o result.flights[i].flightCode \o ": ")]_vars

\* C14 witness: of two rows one did not parse, and the flight of the other
\* has an airport that does not resolve
C14_Witness ==
    /\ uploading = Undefined
    /\ parseResult # Null
    /\ parseResult.totalRows = 2
    /\ Len(parseResult.flights) = 1
    /\ parseResult.successfulRows = 0
    /\ parseResult.failedRows = 2

\* the visualizations derived from an uploaded file: those built from its
\* rows, none when the file could not be read
DerivedFrom(file) ==
    IF file.text = Undefined
    THEN <<>>
    ELSE buildFlightVisualizations(parseFlightsCsv(file.text[1]).flights,
                                   appAirportsMap, codeReplacements).visualizations

\* C21: when an upload has finished, with flights or with an error result,
\* the set handed to the map (filteredVisualizations) is the one derived
\* from that upload, so no visualization of a previous upload stays displayed.
C21_MapShowsLastUpload ==
    [][UploadEnds => flightVisualizations' = DerivedFrom(uploading[1])]_vars

\* the same for the uploads whose file was read: the try block replaces the set
ReadUploadReplaces ==
    [][(UploadEnds /\ uploading[1].text # Undefined)
          => /\ flightVisualizations' = DerivedFrom(uploading[1])
             /\ watchPending']_vars

\* an upload that could not be read has ended over the flights of the
\* previous upload, which the map still shows
StaleAfterFailedRead ==
    /\ uploading = Undefined
    /\ parseResult # Null
    /\ parseResult.totalRows = 0
    /\ allVisualizations = <<>>
    /\ flightVisualizations # <<>>

(***************************************************************************)
(* Properties of a session                                                 *)
(***************************************************************************)
\* C30: while a playback is in progress (isAnimating is true) the dataset
\* rendered by the map does not change: no step replaces
\* filteredVisualizations, and no watch callback (a static re-render) is
\* queued or run, until the playback has ended.
C30_DatasetFixedDuringPlayback ==
    [][isAnimating => /\ flightVisualizations' = flightVisualizations
                      /\ ~watchPending
                      /\ ~watchPending']_vars

\* the part of it about uploads: while isAnimating is true no upload begins
\* and none ends
NoUploadDuringPlayback ==
    [][isAnimating => /\ uploading' = uploading
                      /\ allVisualizations' = allVisualizations
                      /\ isProcessing' = isProcessing]_vars

\* no upload is in flight while isAnimating is true
NoUploadInFlightDuringPlayback == isAnimating => (uploading = Undefined /\ ~isProcessing)

\* the year was changed during a playback: the map has redrawn the static
\* scene of the flights of one year while the playback of all flights goes on
RedrawnDuringPlayback ==
    /\ isAnimating
    /\ ~watchPending
    /\ selectedYear # Undefined
    /\ Len(flightVisualizations) < Len(allVisualizations)
    /\ timers # <<>>

====
